---- MODULE Spec2Model ----
(***************************************************************************)
(* Verification model of the better-auth example application servers       *)
(* (examples/basic and examples/garden-k8s, services/app-rs):              *)
(*   - ServerTimeLockStore::reserve, the nonce replay defence;             *)
(*   - KeyVerifier::verify, the HSM key-log verifier and its cache;        *)
(*   - RedisVerificationKeyStore::get / process_response;                  *)
(*   - handle_foo_bar, the request handler.                                *)
(* Time is a global clock `now` that only moves forward; every read of     *)
(* SystemTime::now() / Utc::now() in the code reads it.                    *)
(***************************************************************************)
EXTENDS Integers, Sequences, FiniteSets, TLC

(***************************************************************************)
(* Bounds of the model.                                                    *)
(***************************************************************************)
\* Last value of the clock.
MaxTime == 4
\* Lifetime of a nonce reservation (lifetime_in_seconds), in clock units.
Lifetime == 2
\* Number of reserve calls issued in one run of the nonce store.
MaxCalls == 3
\* Last value of the clock in the runs of the key verifier.
MaxClock == 5
\* verification_window_seconds, in clock units.
Window == 2

Tasks == {1, 2}
Nonces == {"n1", "n2"}
\* "No instant": the Option::None of a map lookup or of an expiration.
NoTime == 0 - 1
\* "No task": a free mutex.
NoTask == 0

VARIABLES
    now,        \* the clock
    nonces,     \* ServerTimeLockStore.nonces: nonce -> valid_at (NoTime: absent)
    noncesLock, \* holder of the nonces mutex, or NoTask
    rpc,        \* per task: position inside reserve
    rvalue,     \* per task: the `value` argument of its reserve call
    rseen,      \* per task: what the call observed at its check
    rlog,       \* history of the completed reserve calls, in order of return
    variant,    \* which example's KeyVerifier runs: "garden" or "basic"
    hsm,        \* what the HSM-log store may be given: the value written
                \* under each key, and the keys whose value passes the
                \* self-address check and the check of its signature
    store,      \* the HSM-log store: the keys it holds
    cache,      \* KeyVerifier.cache: a set of ExpiringEntry, one per entry id
    cacheLock,  \* holder of the cache mutex, or NoTask
    connLock,   \* holder of the HSM connection mutex, or NoTask
    vpc,        \* per task: position inside KeyVerifier::verify
    vin,        \* per task: the arguments of its verify call
    vkeys,      \* per task: `keys`, the result of KEYS *
    vvalues,    \* per task: `values`, the result of MGET (the keys found)
    vrecords,   \* per task: `records`, the validated chain of HSM_IDENTITY
    vused,      \* per task: the cached entry verify_with_entry was given
    vwarm,      \* per task: did its lookup miss a cache that held entries?
    vres,       \* per task: the result of its last verify call, and the
                \* stage of verify that returned it
    accLock,    \* holder of the access-store connection mutex, or NoTask
    apc,        \* per task: position inside RedisVerificationKeyStore::get
    aident,     \* per task: the `identity` argument of its get call
    aattempt,   \* per task: `attempt`, the retries made so far
    ares,       \* per task: the result of its last get call
    hpc,        \* per task: position inside the /foo/bar handler
    hreq,       \* per task: the request it handles
    hcalled,    \* per task: the operations its request has called so far
    hres,       \* per task: the answer to its last request
    revoked,    \* the revoked-devices store: the device identities it holds
    jdata,      \* the `data` argument of a get_sub_json call
    jlabel,     \* its `label` argument
    jres        \* its result

nonceVars == <<nonces, noncesLock, rpc, rvalue, rseen, rlog>>
verifierVars == <<variant, hsm, store, cache, cacheLock, connLock, vpc, vin, vkeys,
                  vvalues, vrecords, vused, vwarm, vres>>
accessVars == <<accLock, apc, aident, aattempt, ares>>
handlerVars == <<hpc, hreq, hcalled, hres, revoked>>
jsonVars == <<jdata, jlabel, jres>>
vars == <<now, nonces, noncesLock, rpc, rvalue, rseen, rlog,
          variant, hsm, store, cache, cacheLock, connLock, vpc, vin, vkeys,
          vvalues, vrecords, vused, vwarm, vres,
          accLock, apc, aident, aattempt, ares,
          hpc, hreq, hcalled, hres, revoked,
          jdata, jlabel, jres>>

(***************************************************************************)
(* The clock.                                                              *)
(***************************************************************************)
Tick(last) ==
    /\ now < last
    /\ now' = now + 1

(***************************************************************************)
(* ServerTimeLockStore (garden-k8s .../storage/server_time_lock_store.rs)  *)
(***************************************************************************)
NoSeen == [at |-> NoTime, prev |-> NoTime, racing |-> FALSE]

InitNonceStore ==
    /\ nonces = [n \in Nonces |-> NoTime]
    /\ noncesLock = NoTask
    /\ rpc = [t \in Tasks |-> "idle"]
    /\ rvalue = [t \in Tasks |-> "n1"]
    /\ rseen = [t \in Tasks |-> NoSeen]
    /\ rlog = <<>>

\* Calls issued so far: the completed ones and the ones in flight.
CallsIssued == Len(rlog) + Cardinality({t \in Tasks : rpc[t] # "idle"})

\* A task calls reserve(value); it next waits for the mutex.
ReserveCall(t, value) ==
    /\ rpc[t] = "idle"
    /\ CallsIssued < MaxCalls
    /\ rpc' = [rpc EXCEPT ![t] = "lock"]
    /\ rvalue' = [rvalue EXCEPT ![t] = value]
    \* history only: was another call for the same value in flight at the call?
    /\ rseen' = [rseen EXCEPT ![t].racing =
                    \E u \in Tasks \ {t} : rpc[u] # "idle" /\ rvalue[u] = value]
    /\ UNCHANGED <<nonces, noncesLock, rlog>>

\* Mutant of NoncesLockFree: the map is not guarded by the mutex.
NoncesLockFreeUnguarded == TRUE

\* self.nonces.lock().await returns only when no other task holds the guard.
NoncesLockFree == noncesLock = NoTask

\* line 32: let mut nonces = self.nonces.lock().await;
ReserveLock(t) ==
    /\ rpc[t] = "lock"
    /\ NoncesLockFree
    /\ noncesLock' = t
    /\ rpc' = [rpc EXCEPT ![t] = "check"]
    /\ UNCHANGED <<nonces, rvalue, rseen, rlog>>

\* Mutant of ReservedTooRecently: the comparison includes the boundary.
ReservedTooRecentlyInclusive(valid_at, t) == valid_at # NoTime /\ t <= valid_at

\* lines 34-36: if let Some(valid_at) = nonces.get(&value) { now < *valid_at }
ReservedTooRecently(valid_at, t) == valid_at # NoTime /\ t < valid_at

\* Mutant of NewValidAt: the lifetime is not added.
NewValidAtNoLifetime(t) == t

\* line 41: SystemTime::now() + Duration::from_secs(self.lifetime_in_seconds)
NewValidAt(t) == t + Lifetime

\* Mutant of ReserveCheck: the refused attempt extends the reservation.
ReserveCheckExtends(t) ==
    /\ rpc[t] = "check"
    /\ LET valid_at == nonces[rvalue[t]]
           seen == [at |-> now, prev |-> valid_at, racing |-> rseen[t].racing]
       IN IF ReservedTooRecently(valid_at, now)
          THEN /\ rlog' = Append(rlog, [task |-> t, value |-> rvalue[t],
                                        at |-> now, prev |-> valid_at,
                                        ok |-> FALSE, wrote |-> NoTime,
                                        wroteAt |-> NoTime,
                                        racing |-> rseen[t].racing])
               /\ rpc' = [rpc EXCEPT ![t] = "idle"]
               /\ rseen' = [rseen EXCEPT ![t] = NoSeen]
               /\ noncesLock' = NoTask
               /\ nonces' = [nonces EXCEPT ![rvalue[t]] = NewValidAt(now)]
          ELSE /\ rpc' = [rpc EXCEPT ![t] = "insert"]
               /\ rseen' = [rseen EXCEPT ![t] = seen]
               /\ UNCHANGED <<rlog, noncesLock, nonces>>
    /\ UNCHANGED rvalue

\* lines 34-39: the lookup and the comparison with the clock; a value reserved
\* too recently returns the error and drops the guard.
ReserveCheck(t) ==
    /\ rpc[t] = "check"
    /\ LET valid_at == nonces[rvalue[t]]
           seen == [at |-> now, prev |-> valid_at, racing |-> rseen[t].racing]
       IN IF ReservedTooRecently(valid_at, now)
          THEN /\ rlog' = Append(rlog, [task |-> t, value |-> rvalue[t],
                                        at |-> now, prev |-> valid_at,
                                        ok |-> FALSE, wrote |-> NoTime,
                                        wroteAt |-> NoTime,
                                        racing |-> rseen[t].racing])
               /\ rpc' = [rpc EXCEPT ![t] = "idle"]
               /\ rseen' = [rseen EXCEPT ![t] = NoSeen]
               /\ noncesLock' = NoTask
          ELSE /\ rpc' = [rpc EXCEPT ![t] = "insert"]
               /\ rseen' = [rseen EXCEPT ![t] = seen]
               /\ UNCHANGED <<rlog, noncesLock>>
    /\ UNCHANGED <<nonces, rvalue>>

\* lines 41-44: a second read of the clock, the insert, Ok(()); the guard is
\* dropped on return.
ReserveInsert(t) ==
    /\ rpc[t] = "insert"
    /\ nonces' = [nonces EXCEPT ![rvalue[t]] = NewValidAt(now)]
    /\ rlog' = Append(rlog, [task |-> t, value |-> rvalue[t],
                             at |-> rseen[t].at, prev |-> rseen[t].prev,
                             ok |-> TRUE, wrote |-> NewValidAt(now),
                             wroteAt |-> now, racing |-> rseen[t].racing])
    /\ rpc' = [rpc EXCEPT ![t] = "idle"]
    /\ rseen' = [rseen EXCEPT ![t] = NoSeen]
    /\ noncesLock' = NoTask
    /\ UNCHANGED rvalue

(***************************************************************************)
(* Strings, digests and signatures.                                        *)
(* A string is a sequence of character codes.  Blake3Hasher::sum is        *)
(* modelled as a digest computed from the characters of the text: the CESR *)
(* prefix 'E' followed by one number.  A signature names the key that made *)
(* it and the text it was made over.                                       *)
(***************************************************************************)
\* "############################################" (one character here)
Placeholder == <<35>>

\* The digest of a text, a number below DigestModulus.
DigestModulus == 1000003
Digest(message) ==
    LET h[i \in 0..Len(message)] ==
            IF i = 0 THEN 7 ELSE (h[i - 1] * 31 + message[i]) % DigestModulus
    IN h[Len(message)]

\* crypto/blake3_hasher.rs: Blake3Hasher::sum
Blake3(message) == <<69, Digest(message)>>

\* The CESR text of public key k.
PublicKey(k) == <<50 + k>>

\* Secp256r1Verifier::verify(message, signature, public_key)
SignatureVerifies(message, signature, public_key) ==
    /\ signature.by = public_key
    /\ signature.over = message

\* str::replace(from, to): every non-overlapping match, left to right.
RECURSIVE Replace(_, _, _)
Replace(s, from, to) ==
    IF Len(s) < Len(from) \/ Len(from) = 0 THEN s
    ELSE IF SubSeq(s, 1, Len(from)) = from
         THEN to \o Replace(SubSeq(s, Len(from) + 1, Len(s)), from, to)
         ELSE <<s[1]>> \o Replace(Tail(s), from, to)

(***************************************************************************)
(* LogEntry, SignedLogEntry and the records of the HSM-log store.          *)
(* previous: <<>> is None.  taintPrevious: "none" is None.  createdAt: a   *)
(* clock value, or BadTimestamp for a text that is not RFC 3339.           *)
(***************************************************************************)
NoString == <<>>
BadTimestamp == 0 - 2
KeyAuthorization == "key-authorization"

PurposeCode(purpose) == IF purpose = KeyAuthorization THEN <<41>> ELSE <<42>>
TaintCode(taint) ==
    IF taint = "none" THEN <<30>> ELSE IF taint = "true" THEN <<32>> ELSE <<31>>

\* The raw payload JSON of a stored record, as get_sub_json(&value, "payload")
\* returns it: the fields in the order of the struct, 0 between them.
PayloadJson(e) ==
    e.id \o <<0>> \o e.prefix \o <<0>> \o e.previous \o <<0>>
         \o <<10 + e.sequenceNumber>> \o <<0>> \o <<20 + e.createdAt>> \o <<0>>
         \o TaintCode(e.taintPrevious) \o <<0>> \o PurposeCode(e.purpose) \o <<0>>
         \o e.publicKey \o <<0>> \o e.rotationHash

\* An entry as the HSM issues it: self-addressed (the id is the digest of the
\* payload with the id replaced by the placeholder), at sequence 0 with
\* prefix = id, committing to the next key, signed with its own key.
Entry(prefix, previous, seq, createdAt, taint, purpose, key, nextKey) ==
    LET body(id, pfx) ==
            [id |-> id, prefix |-> pfx, previous |-> previous,
             sequenceNumber |-> seq, createdAt |-> createdAt,
             taintPrevious |-> taint, purpose |-> purpose,
             publicKey |-> PublicKey(key),
             rotationHash |-> Blake3(PublicKey(nextKey))]
        self == prefix = NoString
        id == Blake3(PayloadJson(body(Placeholder,
                                      IF self THEN Placeholder ELSE prefix)))
    IN body(id, IF self THEN id ELSE prefix)

Signed(e, key) ==
    [payload |-> e,
     signature |-> [by |-> PublicKey(key), over |-> PayloadJson(e)],
     parses |-> TRUE]

\* A stored record whose payload was changed after it was signed.
Tampered(r, e) == [r EXCEPT !.payload = e]

\* The HSM chain: three generations, one clock unit apart.
H0e == Entry(NoString, NoString, 0, 0, "none", KeyAuthorization, 1, 2)
H1e == Entry(H0e.id, H0e.id, 1, 1, "false", KeyAuthorization, 2, 3)
H2e == Entry(H0e.id, H1e.id, 2, 2, "none", KeyAuthorization, 3, 4)
\* generation 2 repudiating the earlier ones
H2te == Entry(H0e.id, H1e.id, 2, 2, "true", KeyAuthorization, 3, 4)
\* generation 1 repudiating generation 0
H1te == Entry(H0e.id, H0e.id, 1, 1, "true", KeyAuthorization, 2, 3)
\* generation 1 issued for another purpose
H1pe == Entry(H0e.id, H0e.id, 1, 1, "false", "other", 2, 3)
\* generation 1 with the timestamp of generation 0
H1se == Entry(H0e.id, H0e.id, 1, 0, "false", KeyAuthorization, 2, 3)
\* generation 1 pointing at another predecessor
H1be == Entry(H0e.id, Blake3(<<1>>), 1, 1, "false", KeyAuthorization, 2, 3)
\* generation 1 with a key generation 0 did not commit to
H1ce == Entry(H0e.id, H0e.id, 1, 1, "false", KeyAuthorization, 5, 3)
\* generation 1 without previous
H1me == Entry(H0e.id, NoString, 1, 1, "false", KeyAuthorization, 2, 3)
\* an entry issued at sequence 0 with the prefix of the HSM chain, and one
\* issued at sequence 1 with its own id as prefix
H0re == Entry(H0e.id, NoString, 0, 0, "none", KeyAuthorization, 1, 2)
G1e == Entry(NoString, H0e.id, 1, 1, "false", KeyAuthorization, 2, 3)
\* a chain of another prefix
F0e == Entry(NoString, NoString, 0, 0, "none", KeyAuthorization, 6, 7)
\* its generation 1, pointing at another predecessor
F1be == Entry(F0e.id, Blake3(<<1>>), 1, 1, "false", KeyAuthorization, 7, 8)

\* The records the store may hold, by the key they are stored under.
Rec ==
    [H0  |-> Signed(H0e, 1),
     H1  |-> Signed(H1e, 2),
     H2  |-> Signed(H2e, 3),
     H2t |-> Signed(H2te, 3),
     H1t |-> Signed(H1te, 2),
     H1p |-> Signed(H1pe, 2),
     H1s |-> Signed(H1se, 2),
     H1b |-> Signed(H1be, 2),
     H1c |-> Signed(H1ce, 5),
     H1m |-> Signed(H1me, 2),
     \* generation 1 signed with a key that is not its own
     H1x |-> Signed(H1e, 5),
     \* generation 1 with previous changed in the stored payload
     H1a |-> Tampered(Signed(H1e, 2), [H1e EXCEPT !.previous = Blake3(<<1>>)]),
     \* generation 2 with previous changed in the stored payload to the id of
     \* generation 0
     H2a |-> Tampered(Signed(H2e, 3), [H2e EXCEPT !.previous = H0e.id]),
     \* generation 1 with the public key changed in the stored payload
     H1k |-> Tampered(Signed(H1e, 2), [H1e EXCEPT !.publicKey = PublicKey(5)]),
     \* generation 1 signed over a payload that its id is not the digest of
     H1w |-> Signed([H1e EXCEPT !.taintPrevious = "true"], 2),
     \* generation 0 stored with another prefix
     H0q |-> Tampered(Signed(H0e, 1), [H0e EXCEPT !.prefix = F0e.id]),
     \* generation 1 stored a second time under another key
     H1d |-> Signed(H1e, 2),
     H0r |-> Signed(H0re, 1),
     G1  |-> Signed(G1e, 2),
     F0  |-> Signed(F0e, 6),
     F0x |-> Signed(F0e, 5),
     \* the other chain's generation 0 with the rotation hash changed in the
     \* stored payload
     F0a |-> Tampered(Signed(F0e, 6),
                      [F0e EXCEPT !.rotationHash = Blake3(PublicKey(9))]),
     F1b |-> Signed(F1be, 7),
     \* a value that is not a SignedLogEntry
     U   |-> [Signed(F0e, 6) EXCEPT !.parses = FALSE]]

RecKeys == DOMAIN hsm.values

\* const HSM_IDENTITY
HSM_IDENTITY == H0e.id

(***************************************************************************)
(* KeyVerifier (.../storage/key_verifier.rs).  Line numbers are those of   *)
(* the garden-k8s file; the basic file differs where `variant` is tested.  *)
(***************************************************************************)
Payload(k) == hsm.values[k].payload

\* The records whose payload hashes to their id, and those whose signature
\* verifies against their own public key.
AddressOk ==
    {k \in DOMAIN Rec :
        LET payload == Rec[k].payload
        IN Blake3(Replace(PayloadJson(payload), payload.id, Placeholder))
              = payload.id}
SignatureOk ==
    {k \in DOMAIN Rec :
        LET payload == Rec[k].payload
        IN SignatureVerifies(PayloadJson(payload), Rec[k].signature,
                             payload.publicKey)}

\* The arguments of a verify call: the generation claimed (the stored record
\* whose id is given, or "none" for an id no entry has), the identity
\* claimed (the record whose id is given), the signature and the message.
Message == <<77>>
GenerationId(in) == IF in.gen = "none" THEN Blake3(<<2>>) ELSE Payload(in.gen).id
Identity(in) == Payload(in.identity).id
Signature(in) == in.signature

\* A call whose message is Message, signed with key `signer`.
In(gen, identity, signer) ==
    [gen |-> gen, identity |-> identity,
     signature |-> [by |-> PublicKey(signer), over |-> Message],
     message |-> Message]

NoInput == In("none", "H0", 1)
NoEntry == [key |-> "none", expiration |-> NoTime, at |-> NoTime]
NoResult == [stage |-> "none", result |-> "none"]

\* What the HSM-log store may be given, and the same of a run where nothing
\* is written to it.
Hsm == [values |-> Rec, addressOk |-> AddressOk, signatureOk |-> SignatureOk]
NoHsm == [values |-> <<>>, addressOk |-> {}, signatureOk |-> {}]

\* Generations 1 and 2 issued with a createdAt that is not RFC 3339: the id
\* is the digest of the payload as issued and the signature is over it.
H1ze == Entry(H0e.id, H0e.id, 1, BadTimestamp, "false", KeyAuthorization, 2, 3)
H2ze == Entry(H0e.id, H1e.id, 2, BadTimestamp, "none", KeyAuthorization, 3, 4)

\* The records of the runs over such a log.
ParseRec ==
    [H0  |-> Signed(H0e, 1),
     H1  |-> Signed(H1e, 2),
     H1z |-> Signed(H1ze, 2),
     H2z |-> Signed(H2ze, 3)]

HsmParse ==
    [values |-> ParseRec,
     addressOk |->
        {k \in DOMAIN ParseRec :
            LET payload == ParseRec[k].payload
            IN Blake3(Replace(PayloadJson(payload), payload.id, Placeholder))
                  = payload.id},
     signatureOk |->
        {k \in DOMAIN ParseRec :
            LET payload == ParseRec[k].payload
            IN SignatureVerifies(PayloadJson(payload), ParseRec[k].signature,
                                 payload.publicKey)}]

InitVerifierOver(v, records) ==
    /\ variant = v
    /\ hsm = records
    /\ cache = {}
    /\ cacheLock = NoTask
    /\ connLock = NoTask
    /\ vpc = [t \in Tasks |-> "idle"]
    /\ vin = [t \in Tasks |-> NoInput]
    /\ vkeys = [t \in Tasks |-> {}]
    /\ vvalues = [t \in Tasks |-> {}]
    /\ vrecords = [t \in Tasks |-> <<>>]
    /\ vused = [t \in Tasks |-> NoEntry]
    /\ vwarm = [t \in Tasks |-> FALSE]
    /\ vres = [t \in Tasks |-> NoResult]

InitVerifier(v) == InitVerifierOver(v, Hsm)

\* The store is written by the HSM and by whoever else reaches it, one key
\* at a time: a SET of a new key or a DEL of one.
StoreChange(log) ==
    /\ Cardinality((store \ log) \cup (log \ store)) = 1
    /\ store' = log
    /\ UNCHANGED <<variant, hsm, cache, cacheLock, connLock, vpc, vin, vkeys,
                   vvalues, vrecords, vused, vwarm, vres>>

\* The cached entry of an id: cache.get(id).
CacheGet(c, id) == {x \in c : Payload(x.key).id = id}

\* One name for the records that hold the same payload (the cache holds a
\* clone of the payload).
Canonical(k) == CHOOSE j \in RecKeys : Payload(j) = Payload(k)

\* cache.insert(payload.id.clone(), ExpiringEntry { entry, expiration });
\* `from` records the snapshot the entry was taken from.
CacheInsert(c, k, expiration, from) ==
    {x \in c : Payload(x.key).id # Payload(k).id}
        \cup {[key |-> Canonical(k), expiration |-> expiration, from |-> from]}

\* Mutant of Expired: the expiration is not looked at.
ExpiredNever(expiration, t) == FALSE

\* Mutant of Expired: the boundary counts as expired.
ExpiredInclusive(expiration, t) == expiration # NoTime /\ expiration <= t

\* lines 225-229: if let Some(expiration) = ... { expiration < Utc::now() }
Expired(expiration, t) == expiration # NoTime /\ expiration < t

\* Mutant of VerifyWithEntry: the identity is not compared with the prefix.
VerifyWithEntryAnyIdentity(x, in, t) ==
    IF Payload(x.key).purpose # KeyAuthorization
    THEN "incorrect purpose (expected key-authorization)"
    ELSE IF variant = "garden" /\ Expired(x.expiration, t) THEN "expired key"
    ELSE IF SignatureVerifies(in.message, Signature(in), Payload(x.key).publicKey)
         THEN "ok" ELSE "invalid signature"

\* lines 210-234: verify_with_entry (the basic one has no expiration)
VerifyWithEntry(x, in, t) ==
    IF Payload(x.key).prefix # Identity(in)
    THEN "incorrect identity (expected hsm.identity == prefix)"
    ELSE IF Payload(x.key).purpose # KeyAuthorization
    THEN "incorrect purpose (expected key-authorization)"
    ELSE IF variant = "garden" /\ Expired(x.expiration, t) THEN "expired key"
    ELSE IF SignatureVerifies(in.message, Signature(in), Payload(x.key).publicKey)
         THEN "ok" ELSE "invalid signature"

\* Mutant of VerifyAddressAndData: the digest is not compared with the id.
VerifyAddressAndDataSkipped(k) == "ok"

\* lines 244-255: verify_address_and_data
VerifyAddressAndData(k) ==
    IF k \in hsm.addressOk THEN "ok" ELSE "id does not match hash of payload"

\* Mutant of VerifyPrefixAndData: the id is not compared with the prefix.
VerifyPrefixAndDataAnyPrefix(k) == VerifyAddressAndData(k)

\* lines 236-242: verify_prefix_and_data
VerifyPrefixAndData(k) ==
    IF Payload(k).id # Payload(k).prefix
    THEN "prefix must equal id for sequence 0"
    ELSE VerifyAddressAndData(k)

\* lines 110-122: the checks of one record in "Verify data & signatures"
DataError(k) ==
    LET data == IF Payload(k).sequenceNumber = 0
                THEN VerifyPrefixAndData(k) ELSE VerifyAddressAndData(k)
    IN IF data # "ok" THEN data
       ELSE IF k \in hsm.signatureOk THEN "ok" ELSE "invalid signature"

\* The first error of a sequence of results, "ok" when there is none.
FirstError(errs) ==
    IF \A a \in DOMAIN errs : errs[a] = "ok" THEN "ok"
    ELSE errs[CHOOSE a \in DOMAIN errs :
                 /\ errs[a] # "ok"
                 /\ \A b \in DOMAIN errs : b < a => errs[b] = "ok"]

\* Mutant of TimestampNotAfter: equal timestamps pass.
TimestampNotAfterStrict(created_at, last_created_at) ==
    created_at < last_created_at

\* line 154: created_at <= last_created_at
TimestampNotAfter(created_at, last_created_at) == created_at <= last_created_at

\* Mutant of BadSequenceNumber: only a number above the index is refused.
BadSequenceNumberAbove(sequence_number, i) == sequence_number > i

\* line 136: payload.sequence_number != i as i32
BadSequenceNumber(sequence_number, i) == sequence_number # i

\* Mutant of FutureTimestamp: the boundary passes.
FutureTimestampStrict(created_at, t) == created_at > t

\* line 145: created_at >= Utc::now()
FutureTimestamp(created_at, t) == created_at >= t

\* lines 133-169: the checks of the record at index a (from 1) of a sorted
\* group; `last` is the record before it.
ChainErrorAt(s, a, t) ==
    LET p == Payload(s[a])
    IN IF BadSequenceNumber(p.sequenceNumber, a - 1) THEN "bad sequence number"
       ELSE IF variant = "garden" /\ p.createdAt = BadTimestamp
       THEN "Failed to parse created_at"
       ELSE IF variant = "garden" /\ FutureTimestamp(p.createdAt, t)
       THEN "future timestamp"
       ELSE IF p.sequenceNumber = 0 THEN "ok"
       ELSE LET last == Payload(s[a - 1])
            IN IF p.previous = NoString THEN "missing previous"
               ELSE IF last.id # p.previous THEN "broken chain"
               ELSE IF variant = "garden"
                       /\ TimestampNotAfter(p.createdAt, last.createdAt)
               THEN "non-increasing timestamp"
               ELSE IF Blake3(p.publicKey) # last.rotationHash
               THEN "bad commitment"
               ELSE "ok"

\* Mutant of Prefixes: only the group of HSM_IDENTITY is looked at.
PrefixesHsmOnly(values) == {Payload(k).prefix : k \in values} \cap {HSM_IDENTITY}

\* lines 91-101: the groups of by_prefix
Prefixes(values) == {Payload(k).prefix : k \in values}
Group(values, prefix) == {k \in values : Payload(k).prefix = prefix}

\* lines 104-106: sort_by_key(sequence_number) is stable and the order MGET
\* returns the values in is that of KEYS, which is arbitrary: records with
\* the same sequence number may come in any order.
Orders(g) ==
    {s \in [1..Cardinality(g) -> g] :
        /\ \A a, b \in DOMAIN s : a # b => s[a] # s[b]
        /\ \A a, b \in DOMAIN s :
              a < b => Payload(s[a]).sequenceNumber <= Payload(s[b]).sequenceNumber}

AllOrders(values) == UNION {Orders(Group(values, p)) : p \in Prefixes(values)}

\* lines 90-174: what the validation of the fetched values may return.  The
\* groups are visited in the order of the HashMap, which is arbitrary, so the
\* first error of any group may be the one returned.
ValidationResults(values, t) ==
    LET data == {FirstError([a \in DOMAIN s |-> DataError(s[a])]) :
                    s \in AllOrders(values)} \ {"ok"}
        chain == {FirstError([a \in DOMAIN s |-> ChainErrorAt(s, a, t)]) :
                    s \in AllOrders(values)} \ {"ok"}
    IN IF \E k \in values : ~hsm.values[k].parses
       THEN {"Failed to parse HSM record"}
       ELSE IF data # {} THEN data
       ELSE IF chain # {} THEN chain
       ELSE IF HSM_IDENTITY \notin Prefixes(values) THEN {"hsm identity not found"}
       ELSE {"ok"}

\* Mutant of NextTainted: once an entry taints, every older entry is tainted.
NextTaintedSticky(tainted, p) == tainted \/ p.taintPrevious = "true"

\* Mutant of NextTainted: taintPrevious is not read.
NextTaintedNever(tainted, p) == FALSE

\* line 190: tainted = payload.taint_previous.unwrap_or(false);
NextTainted(tainted, p) == p.taintPrevious = "true"

\* Mutant of Exp: the window is added twice.
ExpTwoWindows(created_at) == created_at + 2 * Window

\* line 196: exp = created_at + Duration::seconds(verification_window_seconds)
Exp(created_at) == created_at + Window

\* Mutant of PastWindow: the walk never stops early.
PastWindowNever(exp, t) == FALSE

\* line 199: exp < Utc::now()
PastWindow(exp, t) == exp < t

\* lines 180-202: the loop over records.iter().rev(), from index a down; the
\* result is the cache and the error the loop returned with ("ok": none).
\* The basic loop (lines 149-159 there) inserts every visited entry, without
\* an expiration.
RECURSIVE Walk(_, _, _, _, _, _, _)
Walk(s, a, tainted, expiration, c, t, from) ==
    IF a = 0 THEN [cache |-> c, err |-> "ok"]
    ELSE LET p == Payload(s[a])
             c1 == IF variant = "basic" THEN CacheInsert(c, s[a], NoTime, from)
                   ELSE IF ~tainted THEN CacheInsert(c, s[a], expiration, from)
                   ELSE c
         IN IF p.createdAt = BadTimestamp
            THEN [cache |-> c1, err |-> "Failed to parse created_at"]
            ELSE IF PastWindow(Exp(p.createdAt), t)
            THEN [cache |-> c1, err |-> "ok"]
            ELSE Walk(s, a - 1, NextTainted(tainted, p), Exp(p.createdAt),
                      c1, t, from)

\* A call returns from a stage of verify ("hit", "fetch", "validate", "walk"
\* or "find") with a result; nothing is kept of its locals.
Return(t, stage, result, used) ==
    /\ vpc' = [vpc EXCEPT ![t] = "done"]
    /\ vres' = [vres EXCEPT ![t] = [stage |-> stage, result |-> result]]
    /\ vused' = [vused EXCEPT ![t] = used]
    /\ vkeys' = [vkeys EXCEPT ![t] = {}]
    /\ vvalues' = [vvalues EXCEPT ![t] = {}]
    /\ vrecords' = [vrecords EXCEPT ![t] = <<>>]

\* A task calls verify(signature, hsm_identity, hsm_generation_id, message).
VerifyCall(t, in) ==
    /\ vpc[t] \in {"idle", "done"}
    /\ vpc' = [vpc EXCEPT ![t] = "lookup"]
    /\ vin' = [vin EXCEPT ![t] = in]
    /\ vres' = [vres EXCEPT ![t] = NoResult]
    /\ vused' = [vused EXCEPT ![t] = NoEntry]
    /\ vwarm' = [vwarm EXCEPT ![t] = FALSE]
    /\ UNCHANGED <<variant, hsm, store, cache, cacheLock, connLock, vkeys, vvalues,
                   vrecords>>

\* lines 63-69: the lookup under the cache lock; a hit returns what
\* verify_with_entry returns, a miss drops the lock.
VerifyLookup(t) ==
    /\ vpc[t] = "lookup"
    /\ cacheLock = NoTask
    /\ LET hit == CacheGet(cache, GenerationId(vin[t]))
       IN IF hit # {}
          THEN LET x == CHOOSE x \in hit : TRUE
               IN /\ Return(t, "hit", VerifyWithEntry(x, vin[t], now),
                            [key |-> x.key, expiration |-> x.expiration,
                             at |-> now])
                  /\ UNCHANGED vwarm
          ELSE /\ vpc' = [vpc EXCEPT ![t] =
                            IF variant = "garden" THEN "clear" ELSE "keys"]
               /\ vwarm' = [vwarm EXCEPT ![t] = cache # {}]
               /\ UNCHANGED <<vres, vused, vkeys, vvalues, vrecords>>
    /\ UNCHANGED <<variant, hsm, store, cache, cacheLock, connLock, vin>>

\* Mutant of Cleared: the miss path keeps the cache (as the basic one does).
ClearedKept(c) == c

\* line 73: cache.clear()
Cleared(c) == {}

\* lines 72-74: lock, clear, drop
VerifyClear(t) ==
    /\ vpc[t] = "clear"
    /\ cacheLock = NoTask
    /\ cache' = Cleared(cache)
    /\ vpc' = [vpc EXCEPT ![t] = "keys"]
    /\ UNCHANGED <<variant, hsm, store, cacheLock, connLock, vin, vkeys, vvalues,
                   vrecords, vused, vwarm, vres>>

\* Mutant of NoKeys: an empty result is not refused.
NoKeysAllowed(keys) == FALSE

\* line 81: keys.is_empty()
NoKeys(keys) == keys = {}

\* lines 77-83: lock the connection, KEYS *; an error of the store or an
\* empty result returns (the guard is dropped on return).
VerifyKeys(t, fails) ==
    /\ vpc[t] = "keys"
    /\ connLock = NoTask
    /\ IF fails
       THEN Return(t, "fetch", "Redis keys error", NoEntry) /\ UNCHANGED connLock
       ELSE IF NoKeys(store)
       THEN /\ Return(t, "fetch", "No HSM keys found in Redis", NoEntry)
            /\ UNCHANGED connLock
       ELSE /\ vkeys' = [vkeys EXCEPT ![t] = store]
            /\ vpc' = [vpc EXCEPT ![t] = "mget"]
            /\ connLock' = t
            /\ UNCHANGED <<vres, vused, vvalues, vrecords>>
    /\ UNCHANGED <<variant, hsm, store, cache, cacheLock, vin, vwarm>>

\* Mutant of VerifyMget: the connection guard is not dropped after MGET.
VerifyMgetKeepsConnection(t, fails) ==
    /\ vpc[t] = "mget"
    /\ IF fails THEN Return(t, "fetch", "Redis mget error", NoEntry)
       ELSE /\ vvalues' = [vvalues EXCEPT ![t] = vkeys[t] \cap store]
            /\ vkeys' = [vkeys EXCEPT ![t] = {}]
            /\ vpc' = [vpc EXCEPT ![t] = "validate"]
            /\ UNCHANGED <<vres, vused, vrecords>>
    /\ UNCHANGED <<variant, hsm, store, cache, cacheLock, connLock, vin, vwarm>>

\* lines 85-88: MGET of the keys; a key deleted since KEYS yields None, which
\* flatten() skips.
VerifyMget(t, fails) ==
    /\ vpc[t] = "mget"
    /\ connLock' = NoTask
    /\ IF fails THEN Return(t, "fetch", "Redis mget error", NoEntry)
       ELSE /\ vvalues' = [vvalues EXCEPT ![t] = vkeys[t] \cap store]
            /\ vkeys' = [vkeys EXCEPT ![t] = {}]
            /\ vpc' = [vpc EXCEPT ![t] = "validate"]
            /\ UNCHANGED <<vres, vused, vrecords>>
    /\ UNCHANGED <<variant, hsm, store, cache, cacheLock, vin, vwarm>>

\* lines 90-174: group, sort, verify data and signatures, verify chains,
\* find the group of HSM_IDENTITY.
VerifyValidate(t) ==
    /\ vpc[t] = "validate"
    /\ \E result \in ValidationResults(vvalues[t], now) :
          IF result # "ok" THEN Return(t, "validate", result, NoEntry)
          ELSE /\ vrecords' = [vrecords EXCEPT ![t] =
                     CHOOSE s \in Orders(Group(vvalues[t], HSM_IDENTITY)) : TRUE]
               /\ vpc' = [vpc EXCEPT ![t] = "walk"]
               /\ UNCHANGED <<vres, vused, vkeys, vvalues>>
    /\ UNCHANGED <<variant, hsm, store, cache, cacheLock, connLock, vin, vwarm>>

\* lines 177-202: lock the cache and walk the chain from the newest entry.
\* The guard is held until the call returns.
VerifyWalk(t) ==
    /\ vpc[t] = "walk"
    /\ cacheLock = NoTask
    /\ LET w == Walk(vrecords[t], Len(vrecords[t]), FALSE, NoTime, cache, now,
                     vvalues[t])
       IN /\ cache' = w.cache
          /\ IF w.err # "ok"
             THEN Return(t, "walk", w.err, NoEntry) /\ UNCHANGED cacheLock
             ELSE /\ vpc' = [vpc EXCEPT ![t] = "find"]
                  /\ cacheLock' = t
                  /\ UNCHANGED <<vres, vused, vkeys, vvalues, vrecords>>
    /\ UNCHANGED <<variant, hsm, store, connLock, vin, vwarm>>

\* lines 204-207: the lookup of hsm_generation_id and verify_with_entry.
VerifyFind(t) ==
    /\ vpc[t] = "find"
    /\ LET hit == CacheGet(cache, GenerationId(vin[t]))
       IN IF hit = {}
          THEN Return(t, "find", "can't find valid public key", NoEntry)
          ELSE LET x == CHOOSE x \in hit : TRUE
               IN Return(t, "find", VerifyWithEntry(x, vin[t], now),
                         [key |-> x.key, expiration |-> x.expiration,
                          at |-> now])
    /\ cacheLock' = NoTask
    /\ UNCHANGED <<variant, hsm, store, cache, connLock, vin, vwarm>>

\* The steps of verify for the tasks of T; F: may a command of the HSM-log
\* store fail?
VerifySteps(T, F) ==
    \/ \E t \in T : VerifyLookup(t)
    \/ \E t \in T : VerifyClear(t)
    \/ \E t \in T, fails \in F : VerifyKeys(t, fails)
    \/ \E t \in T, fails \in F : VerifyMget(t, fails)
    \/ \E t \in T : VerifyValidate(t)
    \/ \E t \in T : VerifyWalk(t)
    \/ \E t \in T : VerifyFind(t)

(***************************************************************************)
(* RedisVerificationKeyStore (basic .../storage/                           *)
(* redis_verification_key_store.rs) and the records of the access store.   *)
(* hsm.identity and hsm.generationId name the HSM record whose id they     *)
(* carry ("none": an id no entry has).                                     *)
(***************************************************************************)
\* const MAX_RETRIES
MAX_RETRIES == 3
\* const INITIAL_BACKOFF_MS
INITIAL_BACKOFF_MS == 100

\* line 66: INITIAL_BACKOFF_MS * 2_u64.pow(attempt - 1)
BackoffMs(attempt) == INITIAL_BACKOFF_MS * 2 ^ (attempt - 1)

Access == "access"

\* struct KeySigningBody
KeySigningBody(purpose, key, expiration, identity, gen) ==
    [payload |-> [purpose |-> purpose, publicKey |-> PublicKey(key),
                  expiration |-> expiration],
     hsm |-> [identity |-> identity, generationId |-> gen]]

\* The raw body JSON of a stored record, as get_sub_json(value, "body")
\* returns it.
BodyJson(b) ==
    (IF b.payload.purpose = Access THEN <<43>> ELSE <<44>>) \o <<0>>
        \o b.payload.publicKey \o <<0>> \o <<20 + b.payload.expiration>> \o <<0>>
        \o Payload(b.hsm.identity).id \o <<0>>
        \o (IF b.hsm.generationId = "none" THEN Blake3(<<2>>)
            ELSE Payload(b.hsm.generationId).id)

\* struct KeySigningResponse, as the HSM with key `signer` issues it.
KeySigningResponse(b, signer) ==
    [body |-> b,
     signature |-> [by |-> PublicKey(signer), over |-> BodyJson(b)],
     parses |-> TRUE]

\* The device key authorized by generation 1 until clock 2.
DevBody == KeySigningBody(Access, 8, 2, "H0", "H1")

\* The records of the access store, by device identity.
AccessRec ==
    [devA |-> KeySigningResponse(DevBody, 2),
     \* authorized until clock 4
     devL |-> KeySigningResponse(KeySigningBody(Access, 9, 4, "H0", "H1"), 2),
     \* authorized for another purpose
     devP |-> KeySigningResponse(KeySigningBody("other", 8, 2, "H0", "H1"), 2),
     \* signed with a key that is not that of generation 1
     devX |-> KeySigningResponse(DevBody, 3),
     \* the public key changed in the stored body after the signature
     devT |-> [KeySigningResponse(DevBody, 2) EXCEPT
                  !.body.payload.publicKey = PublicKey(7)],
     \* a value that is not a KeySigningResponse
     devU |-> [KeySigningResponse(DevBody, 2) EXCEPT !.parses = FALSE],
     \* an expiration that is not RFC 3339
     devE |-> KeySigningResponse(
                  KeySigningBody(Access, 8, BadTimestamp, "H0", "H1"), 2),
     \* a generation the log does not hold
     devG |-> KeySigningResponse(KeySigningBody(Access, 8, 2, "H0", "none"), 2)]

\* The identities asked for: those of the stored records and one the store
\* does not hold.
Identities == DOMAIN AccessRec \cup {"devNone"}

\* The result of a get call; waits: the backoffs, in ms, the call slept.
NoKey ==
    [ok |-> FALSE, err |-> "none", key |-> NoString, at |-> NoTime,
     waits |-> <<>>, reads |-> 0]

InitAccess ==
    /\ accLock = NoTask
    /\ apc = [t \in Tasks |-> "idle"]
    /\ aident = [t \in Tasks |-> "devA"]
    /\ aattempt = [t \in Tasks |-> 0]
    /\ ares = [t \in Tasks |-> NoKey]

\* A task calls get(identity).
GetCall(t, identity) ==
    /\ apc[t] \in {"idle", "done"}
    /\ vpc[t] \in {"idle", "done"}
    /\ apc' = [apc EXCEPT ![t] = "read"]
    /\ aident' = [aident EXCEPT ![t] = identity]
    /\ aattempt' = [aattempt EXCEPT ![t] = 0]
    /\ ares' = [ares EXCEPT ![t] = NoKey]
    /\ UNCHANGED accLock

\* lines 102-107: the arguments process_response gives key_verifier.verify
KeyInput(r) ==
    [gen |-> r.body.hsm.generationId, identity |-> r.body.hsm.identity,
     signature |-> r.signature, message |-> BodyJson(r.body)]

\* get returns (the connection guard is dropped); history: `reads` counts
\* the reads of the access store the call has made, the one of a call that
\* returns from its read included.
GetReturn(t, ok, err, key) ==
    /\ apc' = [apc EXCEPT ![t] = "done"]
    /\ ares' = [ares EXCEPT ![t] =
                  [ok |-> ok, err |-> err, key |-> key, at |-> now,
                   waits |-> ares[t].waits,
                   reads |-> IF apc[t] = "read" THEN ares[t].reads + 1
                             ELSE ares[t].reads]]
    /\ accLock' = NoTask
    /\ UNCHANGED <<aident, aattempt>>

\* Mutant of MoreAttempts: one more turn of the loop.
MoreAttemptsOneMore(attempt) == attempt + 1 <= MAX_RETRIES

\* line 63: for attempt in 0..MAX_RETRIES: is there a turn after this one?
MoreAttempts(attempt) == attempt + 1 < MAX_RETRIES

\* lines 63-86 and 95-107: one attempt.  The connection is locked and the
\* record read; a read that fails (GET of a key the store does not hold
\* yields nil, which is no String) is retried, in the next turn of
\* `for attempt in 0..MAX_RETRIES`, after the sleep of lines 64-68; the error
\* of the last turn is returned.  A record read is parsed and handed to the
\* KeyVerifier.
GetRead(t, fails) ==
    /\ apc[t] = "read"
    /\ accLock = NoTask
    /\ IF fails \/ aident[t] \notin DOMAIN AccessRec
       THEN /\ IF MoreAttempts(aattempt[t])
               THEN /\ aattempt' = [aattempt EXCEPT ![t] = aattempt[t] + 1]
                    /\ ares' = [ares EXCEPT ![t].waits =
                                  Append(ares[t].waits, BackoffMs(aattempt[t] + 1)),
                                            ![t].reads = ares[t].reads + 1]
                    /\ UNCHANGED <<accLock, apc, aident>>
               ELSE GetReturn(t, FALSE, "Redis error", NoString)
            /\ UNCHANGED verifierVars
       ELSE IF ~AccessRec[aident[t]].parses
       THEN /\ GetReturn(t, FALSE, "failed to parse response", NoString)
            /\ UNCHANGED verifierVars
       ELSE /\ VerifyCall(t, KeyInput(AccessRec[aident[t]]))
            /\ accLock' = t
            /\ apc' = [apc EXCEPT ![t] = "verify"]
            /\ ares' = [ares EXCEPT ![t].reads = ares[t].reads + 1]
            /\ UNCHANGED <<aident, aattempt>>

\* Mutant of KeyExpired: the boundary counts as not expired.
KeyExpiredStrict(expiration, t) == expiration < t

\* line 117: expiration <= chrono::Utc::now()
KeyExpired(expiration, t) == expiration <= t

\* Mutant of GetFinish: the purpose and the expiration are checked before
\* the result of key_verifier.verify is looked at.
GetFinishExpirationFirst(t) ==
    /\ apc[t] = "verify"
    /\ vpc[t] = "done"
    /\ LET payload == AccessRec[aident[t]].body.payload
       IN IF payload.purpose # Access
          THEN GetReturn(t, FALSE, "invalid purpose", NoString)
          ELSE IF payload.expiration = BadTimestamp
          THEN GetReturn(t, FALSE, "failed to parse expiration", NoString)
          ELSE IF KeyExpired(payload.expiration, now)
          THEN GetReturn(t, FALSE, "key expired", NoString)
          ELSE IF vres[t].result # "ok"
          THEN GetReturn(t, FALSE, vres[t].result, NoString)
          ELSE GetReturn(t, TRUE, "none", payload.publicKey)
    /\ UNCHANGED verifierVars

\* lines 107-124: process_response once key_verifier.verify has returned.
GetFinish(t) ==
    /\ apc[t] = "verify"
    /\ vpc[t] = "done"
    /\ LET payload == AccessRec[aident[t]].body.payload
       IN IF vres[t].result # "ok"
          THEN GetReturn(t, FALSE, vres[t].result, NoString)
          ELSE IF payload.purpose # Access
          THEN GetReturn(t, FALSE, "invalid purpose", NoString)
          ELSE IF payload.expiration = BadTimestamp
          THEN GetReturn(t, FALSE, "failed to parse expiration", NoString)
          ELSE IF KeyExpired(payload.expiration, now)
          THEN GetReturn(t, FALSE, "key expired", NoString)
          ELSE GetReturn(t, TRUE, "none", payload.publicKey)
    /\ UNCHANGED verifierVars

\* The steps of get for the tasks of T; F: may a read of the access store
\* fail?
GetSteps(T, F) ==
    \/ \E t \in T, fails \in F : GetRead(t, fails)
    \/ \E t \in T : GetFinish(t)

(***************************************************************************)
(* The /foo/bar handler (garden-k8s services/app-rs/src/main.rs) over      *)
(* AccessVerifier.verify, which orchestrates: decode, nonceStore.reserve,  *)
(* accessKeyStore.get, the signature of the request, the token.            *)
(***************************************************************************)
\* The canonical bytes of a request body.
RequestBytes(b) ==
    <<90>> \o (IF b.nonce = "n1" THEN <<61>> ELSE <<62>>) \o <<0>>
           \o (IF b.device = "devL" THEN <<81>>
               ELSE IF b.device = "devA" THEN <<82>> ELSE <<83>>) \o <<0>>
           \o (IF b.token = "read" THEN <<71>>
               ELSE IF b.token = "noread" THEN <<72>>
               ELSE IF b.token = "norole" THEN <<73>> ELSE <<74>>)

\* A request of `device` carrying `nonce` and a token (of a user role with
\* read, of a user role without it, without a user role, or expired),
\* signed with key `signer`.
Request(nonce, device, token, signer, decodes) ==
    LET b == [nonce |-> nonce, device |-> device, token |-> token]
    IN [body |-> b,
        signature |-> [by |-> PublicKey(signer), over |-> RequestBytes(b)],
        decodes |-> decodes]

NoRequest == Request("n1", "devA", "read", 8, FALSE)
NoAnswer ==
    [status |-> 0, err |-> "none", body |-> <<"none">>, reserved |-> FALSE,
     rix |-> 0]

\* garden main.rs lines 33-43 (Display for AppError) and the variant each
\* error of handle_foo_bar is wrapped in (lines 128-169).
AppError(err) ==
    IF err = "Failed to check revoked devices" THEN "Redis error"
    ELSE IF err \in {"device revoked", "unauthorized: missing read permission",
                     "unauthorized: no user permissions"}
    THEN "Permission error"
    ELSE IF err = "signing" THEN "Signing error"
    ELSE "Authentication error"

\* The body foo_bar answers an error with.  garden main.rs lines 117-120:
\* format!(r#"{{"error":"{}"}}"#, e); basic main.rs lines 75-78: the fixed
\* text {"error":"internal server error"}.
ErrorBody(v, err) ==
    IF v = "garden" THEN <<"error", AppError(err), err>>
    ELSE <<"error", "internal server error">>

\* The answer of foo_bar to an error of handle_foo_bar: status 500.
Failed(answer, v, err) ==
    [answer EXCEPT !.status = 500, !.err = err, !.body = ErrorBody(v, err)]

InitHandler ==
    /\ hpc = [t \in Tasks |-> "idle"]
    /\ hreq = [t \in Tasks |-> NoRequest]
    /\ hcalled = [t \in Tasks |-> {}]
    /\ hres = [t \in Tasks |-> NoAnswer]
    /\ revoked = {}

\* foo_bar, lines 111-123: Ok is answered 200 with the signed response, an
\* error 500 with its body.
Respond(t, status, err) ==
    /\ hpc' = [hpc EXCEPT ![t] = "done"]
    /\ hres' = [hres EXCEPT ![t] =
                  IF status = 200
                  THEN [hres[t] EXCEPT !.status = 200, !.err = err,
                                       !.body = <<"response">>]
                  ELSE Failed(hres[t], variant, err)]
    /\ UNCHANGED <<hreq, hcalled, revoked>>

\* The request arrives: AccessVerifier.verify decodes it and calls
\* nonceStore.reserve(nonce).
HandleCall(t, req) ==
    /\ hpc[t] \in {"idle", "done"}
    /\ hreq' = [hreq EXCEPT ![t] = req]
    /\ IF ~req.decodes
       THEN /\ hpc' = [hpc EXCEPT ![t] = "done"]
            /\ hres' = [hres EXCEPT ![t] = Failed(NoAnswer, variant, "decode")]
            /\ hcalled' = [hcalled EXCEPT ![t] = {}]
            /\ UNCHANGED <<nonceVars, revoked>>
       ELSE /\ ReserveCall(t, req.body.nonce)
            /\ hpc' = [hpc EXCEPT ![t] = "reserve"]
            /\ hres' = [hres EXCEPT ![t] = NoAnswer]
            /\ hcalled' = [hcalled EXCEPT ![t] = {"reserve"}]
            /\ UNCHANGED revoked

\* The last reserve call of task t that has returned.
LastReserve(t) ==
    CHOOSE i \in DOMAIN rlog :
        rlog[i].task = t /\ \A j \in DOMAIN rlog : j > i => rlog[j].task # t

\* reserve has returned: its error ends the request, otherwise
\* accessKeyStore.get(identity) is called.
HandleReserved(t) ==
    /\ hpc[t] = "reserve"
    /\ rpc[t] = "idle"
    /\ IF ~rlog[LastReserve(t)].ok
       THEN /\ hpc' = [hpc EXCEPT ![t] = "done"]
            /\ hres' = [hres EXCEPT ![t] =
                          Failed([NoAnswer EXCEPT !.rix = LastReserve(t)], variant,
                                 "value reserved too recently")]
            /\ UNCHANGED <<hreq, hcalled, revoked, accessVars>>
       ELSE /\ GetCall(t, hreq[t].body.device)
            /\ hpc' = [hpc EXCEPT ![t] = "get"]
            /\ hres' = [hres EXCEPT ![t].reserved = TRUE,
                                    ![t].rix = LastReserve(t)]
            /\ hcalled' = [hcalled EXCEPT ![t] = hcalled[t] \cup {"get"}]
            /\ UNCHANGED <<hreq, revoked>>

\* get has returned: its error ends the request, otherwise the signature of
\* the request is verified with the key and the token is decoded and its
\* expiry validated; handle_foo_bar line 128 turns an error into AppError.
HandleKey(t) ==
    /\ hpc[t] = "get"
    /\ apc[t] = "done"
    /\ IF ~ares[t].ok THEN Respond(t, 500, ares[t].err)
       ELSE IF ~SignatureVerifies(RequestBytes(hreq[t].body), hreq[t].signature,
                                  ares[t].key)
       THEN Respond(t, 500, "invalid signature")
       ELSE IF hreq[t].body.token = "expired"
       THEN Respond(t, 500, "token expired")
       ELSE /\ hpc' = [hpc EXCEPT ![t] = "verified"]
            /\ hcalled' = [hcalled EXCEPT ![t] = hcalled[t] \cup {"signature"}]
            /\ UNCHANGED <<hreq, hres, revoked>>

\* The revoked-devices store is written by another service: a device
\* identity is added to it.
Revoke(device) ==
    /\ device \notin revoked
    /\ revoked' = revoked \cup {device}
    /\ UNCHANGED <<hpc, hreq, hcalled, hres>>

\* conn.exists(&token.device), lines 133-136: presence means revoked.
IsRevokedNever(device) == FALSE
IsRevoked(device) == device \in revoked

\* handle_foo_bar, lines 130-169: the revoked-devices lookup, the
\* permissions of the token, the signed response.
HandleFooBar(t, outcome) ==
    /\ hpc[t] = "verified"
    /\ IF outcome = "error"
       THEN Respond(t, 500, "Failed to check revoked devices")
       ELSE IF IsRevoked(hreq[t].body.device)
       THEN Respond(t, 500, "device revoked")
       ELSE IF hreq[t].body.token = "norole"
       THEN Respond(t, 500, "unauthorized: no user permissions")
       ELSE IF hreq[t].body.token # "read"
       THEN Respond(t, 500, "unauthorized: missing read permission")
       ELSE IF outcome = "sign" THEN Respond(t, 500, "signing")
       ELSE Respond(t, 200, "none")

\* A step of get; history: the request whose get calls KeyVerifier.verify.
HandlerGetSteps(T) ==
    /\ GetSteps(T, {FALSE})
    /\ hcalled' = [t \in Tasks |->
                     IF vpc[t] # "lookup" /\ vpc'[t] = "lookup"
                     THEN hcalled[t] \cup {"verify"} ELSE hcalled[t]]
    /\ UNCHANGED <<hpc, hreq, hres, revoked>>

(***************************************************************************)
(* get_sub_json (basic storage/utils.rs), the extractor of a named JSON    *)
(* object.  A &str is the sequence of its UTF-8 bytes and every offset is  *)
(* a byte offset counted from 0, as in the code; a char is the sequence of *)
(* the bytes that encode it.                                               *)
(***************************************************************************)
\* "No offset": the None of str::find and of body_end.
NoOffset == 0 - 1

\* The number of bytes of the char whose encoding starts with byte b.
Utf8Width(b) == IF b < 128 THEN 1 ELSE IF b < 224 THEN 2 ELSE IF b < 240 THEN 3 ELSE 4

\* str::chars: the chars of a string, in order.
RECURSIVE Chars(_)
Chars(s) ==
    IF s = <<>> THEN <<>>
    ELSE LET w == IF Utf8Width(s[1]) <= Len(s) THEN Utf8Width(s[1]) ELSE Len(s)
         IN <<SubSeq(s, 1, w)>> \o Chars(SubSeq(s, w + 1, Len(s)))

\* The bytes of a sequence of chars.
RECURSIVE Bytes(_)
Bytes(chars) == IF chars = <<>> THEN <<>> ELSE chars[1] \o Bytes(Tail(chars))

\* str::is_char_boundary.
IsCharBoundary(s, idx) ==
    \/ idx = 0
    \/ idx = Len(s)
    \/ idx < Len(s) /\ ~(s[idx + 1] >= 128 /\ s[idx + 1] < 192)

\* format!("\"{}\":", label), line 16.
Query(label) == <<34>> \o label \o <<34, 58>>

\* str::find, lines 18-19: the offset of the first occurrence of query.
Find(data, query) ==
    LET at == { i \in 0..(Len(data) - Len(query)) :
                  SubSeq(data, i + 1, i + Len(query)) = query }
    IN IF at = {} THEN NoOffset ELSE CHOOSE i \in at : \A j \in at : i <= j

\* The loop of lines 27-43 from the char of index i on: i counts chars, and
\* idx = body_start + i is used as a byte offset.
RECURSIVE BodyEnd(_, _, _, _, _)
BodyEnd(chars, i, body_start, brace_count, in_body) ==
    IF i >= Len(chars) THEN NoOffset
    ELSE LET ch == chars[i + 1]
             idx == body_start + i
         IN IF ch = <<123>>
            THEN BodyEnd(chars, i + 1, body_start, brace_count + 1, TRUE)
            ELSE IF ch = <<125>>
            THEN IF in_body /\ brace_count - 1 = 0 THEN idx + 1
                 ELSE BodyEnd(chars, i + 1, body_start, brace_count - 1, in_body)
            ELSE BodyEnd(chars, i + 1, body_start, brace_count, in_body)

\* The Result of get_sub_json, and the panic of a slice that does not end
\* on a char boundary.
Extracted(value) == [kind |-> "ok", value |-> value, err |-> <<>>]
ExtractError(err) == [kind |-> "err", value |-> <<>>, err |-> err]
ExtractPanic == [kind |-> "panic", value |-> <<>>, err |-> <<>>]
NoExtract == [kind |-> "none", value |-> <<>>, err |-> <<>>]

\* get_sub_json, lines 15-47.
get_sub_json(data, label) ==
    LET query == Query(label)
        found == Find(data, query)
        body_start == found + Len(query)
        body_end == BodyEnd(Chars(SubSeq(data, body_start + 1, Len(data))), 0,
                            body_start, 0, FALSE)
    IN IF found = NoOffset
       THEN ExtractError(<<"missing ", label, " in response">>)
       ELSE IF body_end = NoOffset
       THEN ExtractError(<<"failed to extract ", label, " from response">>)
       ELSE IF ~IsCharBoundary(data, body_end) THEN ExtractPanic
       ELSE Extracted(SubSeq(data, body_start + 1, body_end))

\* The texts of the unit tests of utils.rs, lines 53-88, and the values
\* the first three expect.
LabelBody == <<98, 111, 100, 121>>
TestSimple ==
    <<123, 34, 111, 117, 116, 101, 114, 34, 58, 123, 34, 98, 111, 100, 121,
      34, 58, 123, 34, 107, 101, 121, 34, 58, 34, 118, 97, 108, 117, 101, 34,
      125, 125, 125>>
TestNested ==
    <<123, 34, 111, 117, 116, 101, 114, 34, 58, 123, 34, 98, 111, 100, 121,
      34, 58, 123, 34, 110, 101, 115, 116, 101, 100, 34, 58, 123, 34, 105,
      110, 110, 101, 114, 34, 58, 34, 118, 97, 108, 117, 101, 34, 125, 125,
      125, 125>>
TestWithWhitespace ==
    <<123, 34, 111, 117, 116, 101, 114, 34, 58, 32, 123, 34, 98, 111, 100,
      121, 34, 58, 32, 123, 34, 107, 101, 121, 34, 58, 32, 34, 118, 97, 108,
      117, 101, 34, 125, 32, 125, 125>>
TestMissingLabel ==
    <<123, 34, 111, 117, 116, 101, 114, 34, 58, 123, 34, 111, 116, 104, 101,
      114, 34, 58, 123, 34, 107, 101, 121, 34, 58, 34, 118, 97, 108, 117,
      101, 34, 125, 125, 125>>
TestMalformed ==
    <<123, 34, 98, 111, 100, 121, 34, 58, 123, 34, 107, 101, 121, 34, 58, 34,
      118, 97, 108, 117, 101, 34>>
ExpectedSimple ==
    <<123, 34, 107, 101, 121, 34, 58, 34, 118, 97, 108, 117, 101, 34, 125>>
ExpectedNested ==
    <<123, 34, 110, 101, 115, 116, 101, 100, 34, 58, 123, 34, 105, 110, 110,
      101, 114, 34, 58, 34, 118, 97, 108, 117, 101, 34, 125, 125>>
ExpectedWithWhitespace ==
    <<123, 34, 107, 101, 121, 34, 58, 32, 34, 118, 97, 108, 117, 101, 34,
      125>>

InitJson(texts, labels) ==
    /\ jdata \in texts
    /\ jlabel \in labels
    /\ jres = NoExtract

\* A call of get_sub_json and its return.
GetSubJson ==
    /\ jres = NoExtract
    /\ jres' = get_sub_json(jdata, jlabel)
    /\ UNCHANGED <<jdata, jlabel>>

(***************************************************************************)
(* Specifications.                                                         *)
(***************************************************************************)
\* The logs the store holds in the runs of one verifier task.
Logs ==
    { {}, {"H0"}, {"H0", "H1"}, {"H0", "H1", "H2"}, {"H0", "H1", "H2t"},
      {"H0", "H1t"}, {"H0", "H1p"}, {"H0", "H1", "F0"},
      {"F0"}, {"H0", "H1", "U"}, {"H0", "H1a"}, {"H0", "H1x"}, {"H0", "H1s"},
      {"H0", "H1b"}, {"H0", "H1c"}, {"H0", "H1m"}, {"H0", "H2"},
      {"H0", "H1", "H1d"}, {"H0q", "F0"}, {"H0", "H1", "F0x"}, {"H1"} }

\* The verify calls of those runs.
Inputs ==
    { In("H1", "H0", 2), In("H2", "H0", 3), In("H2t", "H0", 3),
      In("H0", "H0", 1),
      \* a signature of another key, the identity of another chain
      In("H1", "H0", 3), In("H1", "F0", 2),
      \* a generation issued for another purpose, an id no entry has
      In("H1p", "H0", 2), In("none", "H0", 2) }

InitNonce ==
    /\ now = 0
    /\ InitNonceStore
    /\ store = {}
    /\ InitVerifierOver("garden", NoHsm)
    /\ InitAccess
    /\ InitHandler
    /\ InitJson({<<>>}, {<<>>})

NextNonce ==
    \/ Tick(MaxTime) /\ UNCHANGED <<nonceVars, verifierVars, accessVars, handlerVars, jsonVars>>
    \/ /\ \/ \E t \in Tasks, value \in Nonces : ReserveCall(t, value)
          \/ \E t \in Tasks : ReserveLock(t)
          \/ \E t \in Tasks : ReserveCheck(t)
          \/ \E t \in Tasks : ReserveInsert(t)
       /\ UNCHANGED <<now, verifierVars, accessVars, handlerVars, jsonVars>>

\* The nonce store under concurrent callers.
SpecNonce == InitNonce /\ [][NextNonce]_vars

Init ==
    /\ now = 0
    /\ InitNonceStore
    /\ store \in Logs
    /\ InitVerifier("garden")
    /\ InitAccess
    /\ InitHandler
    /\ InitJson({<<>>}, {<<>>})

Next ==
    \/ Tick(MaxClock) /\ UNCHANGED <<nonceVars, verifierVars, accessVars, handlerVars, jsonVars>>
    \/ /\ \/ \E log \in Logs : StoreChange(log)
          \/ \E in \in Inputs : VerifyCall(1, in)
          \/ VerifySteps({1}, BOOLEAN)
       /\ UNCHANGED <<now, nonceVars, accessVars, handlerVars, jsonVars>>

\* The garden-k8s KeyVerifier with one caller at a time and a store that
\* changes under it.
Spec == Init /\ [][Next]_vars

\* The logs and the calls of the runs with two verifier tasks: the HSM
\* issues generation 2, which taints the earlier ones.
ConcLogs == { {"H0", "H1"}, {"H0", "H1", "H2t"} }
ConcInputs == {In("H1", "H0", 2), In("H2t", "H0", 2)}

InitConc ==
    /\ now = MaxClock - 2
    /\ InitNonceStore
    /\ store = {"H0", "H1"}
    /\ InitVerifier("garden")
    /\ InitAccess
    /\ InitHandler
    /\ InitJson({<<>>}, {<<>>})

NextConc ==
    \/ Tick(MaxClock) /\ UNCHANGED <<nonceVars, verifierVars, accessVars, handlerVars, jsonVars>>
    \/ /\ \/ \E log \in ConcLogs : StoreChange(log)
          \/ \E t \in Tasks, in \in ConcInputs : VerifyCall(t, in)
          \/ VerifySteps(Tasks, BOOLEAN)
       /\ UNCHANGED <<now, nonceVars, accessVars, handlerVars, jsonVars>>

\* The garden-k8s KeyVerifier with two concurrent callers.
SpecConc == InitConc /\ [][NextConc]_vars

\* The logs of the runs of the access key store.
StoreLogs == { {"H0", "H1"}, {"H0"} }

InitStore ==
    /\ now = 0
    /\ InitNonceStore
    /\ store \in StoreLogs
    /\ InitVerifier("basic")
    /\ InitAccess
    /\ InitHandler
    /\ InitJson({<<>>}, {<<>>})

NextStore ==
    \/ Tick(MaxClock) /\ UNCHANGED <<nonceVars, verifierVars, accessVars, handlerVars, jsonVars>>
    \/ /\ \E log \in StoreLogs : StoreChange(log)
       /\ UNCHANGED <<now, nonceVars, accessVars, handlerVars, jsonVars>>
    \/ /\ \E identity \in Identities : GetCall(1, identity)
       /\ UNCHANGED <<now, nonceVars, verifierVars, handlerVars, jsonVars>>
    \/ /\ GetSteps({1}, BOOLEAN)
       /\ UNCHANGED <<now, nonceVars, handlerVars, jsonVars>>
    \/ /\ VerifySteps({1}, BOOLEAN)
       /\ UNCHANGED <<now, nonceVars, accessVars, handlerVars, jsonVars>>

\* The basic access key store over the basic KeyVerifier, one caller at a
\* time.
SpecStore == InitStore /\ [][NextStore]_vars

InitGet ==
    /\ now = 0
    /\ InitNonceStore
    /\ store = {"H0", "H1"}
    /\ InitVerifier("basic")
    /\ InitAccess
    /\ InitHandler
    /\ InitJson({<<>>}, {<<>>})

\* The steps of a call of get, and those of the verify call it makes.
GetProgress ==
    /\ GetSteps({1}, BOOLEAN)
    /\ UNCHANGED <<now, nonceVars, handlerVars, jsonVars>>
VerifyProgress ==
    /\ VerifySteps({1}, BOOLEAN)
    /\ UNCHANGED <<now, nonceVars, accessVars, handlerVars, jsonVars>>

NextGet ==
    \/ Tick(MaxClock) /\ UNCHANGED <<nonceVars, verifierVars, accessVars, handlerVars, jsonVars>>
    \/ /\ \E identity \in Identities : GetCall(1, identity)
       /\ UNCHANGED <<now, nonceVars, verifierVars, handlerVars, jsonVars>>
    \/ GetProgress
    \/ VerifyProgress

\* The basic access key store with one caller at a time, whose task is
\* scheduled as long as it has a step to take: a read of the store and a
\* command of the HSM-log store return, with a value or with an error.
SpecGet == InitGet /\ [][NextGet]_vars /\ WF_vars(GetProgress) /\ WF_vars(VerifyProgress)

\* The requests of the runs of the handler.
Requests ==
    { Request("n1", "devL", "read", 9, TRUE),
      \* signed with a key that is not the device's
      Request("n1", "devL", "read", 8, TRUE),
      \* a device whose record the HSM did not sign, bytes that do not decode
      Request("n2", "devX", "noread", 8, TRUE),
      Request("n2", "devL", "read", 9, FALSE) }

HandlerTasks == Tasks

InitHandlers ==
    /\ now = MaxTime - 3
    /\ InitNonceStore
    /\ store = {"H0", "H1"}
    /\ InitVerifier("garden")
    /\ InitAccess
    /\ InitHandler
    /\ InitJson({<<>>}, {<<>>})

\* The steps of the requests handled by the tasks of T.
HandlerSteps(T) ==
    \/ /\ Tick(MaxTime)
       /\ \A t \in T : hpc[t] \in {"idle", "reserve", "done"}
       /\ UNCHANGED <<nonceVars, verifierVars, accessVars, handlerVars, jsonVars>>
    \/ /\ \E t \in T, req \in Requests :
             /\ \A u \in T : hpc[u] \in {"idle", "done"}
             /\ HandleCall(t, req)
       /\ UNCHANGED <<now, verifierVars, accessVars, jsonVars>>
    \/ /\ \/ \E t \in T : ReserveLock(t)
          \/ \E t \in T : ReserveCheck(t)
          \/ \E t \in T : ReserveInsert(t)
       /\ UNCHANGED <<now, verifierVars, accessVars, handlerVars, jsonVars>>
    \/ /\ \E t \in T : HandleReserved(t)
       /\ UNCHANGED <<now, nonceVars, verifierVars, jsonVars>>
    \/ /\ HandlerGetSteps(T)
       /\ UNCHANGED <<now, nonceVars, jsonVars>>
    \/ /\ VerifySteps(T, {FALSE})
       /\ UNCHANGED <<now, nonceVars, accessVars, handlerVars, jsonVars>>
    \/ /\ \E t \in T : HandleKey(t)
       /\ UNCHANGED <<now, nonceVars, verifierVars, accessVars, jsonVars>>
    \/ /\ \E t \in T, outcome \in {"ok", "error", "sign"} :
             HandleFooBar(t, outcome)
       /\ UNCHANGED <<now, nonceVars, verifierVars, accessVars, jsonVars>>

NextHandlers == HandlerSteps(HandlerTasks)

\* The garden-k8s application: requests to /foo/bar that arrive one after
\* the other, each handled by a task of its own, with stores that answer;
\* the clock advances between the requests and during the reservations.
SpecHandler == InitHandlers /\ [][NextHandlers]_vars

\* The devices that get revoked in the runs of one request at a time.
RevokedDevices == {"devL"}

NextRevoke ==
    \/ HandlerSteps({1})
    \/ /\ \E device \in RevokedDevices : Revoke(device)
       /\ UNCHANGED <<now, nonceVars, verifierVars, accessVars, jsonVars>>

\* The garden-k8s application with one request at a time, while devices
\* are added to the revoked-devices store.
SpecRevoke == InitHandlers /\ [][NextRevoke]_vars

\* Logs that are given to the verifier as they are, one per run: the valid
\* chains, the chains with one stored payload changed, with an entry issued
\* wrongly, with a gap or a repeated sequence number, and some of them next
\* to the chain of another prefix.
LogCases ==
    { {"H0", "H1"}, {"H0", "H1", "H2"}, {"H0", "H1", "H2t"}, {"H0", "H1", "F0"},
      {"H0", "H1a"}, {"H0", "H1", "H2a"}, {"H0", "H1a", "F0"},
      {"H0", "H1k"}, {"H0", "H1k", "F0"}, {"H0", "H1c"}, {"H0", "H1b"},
      {"H0", "H1w"}, {"H0q", "F0"}, {"H0", "H1x"},
      {"H0", "H2"}, {"H1"}, {"H0", "H1", "H1d"}, {"H0", "H1", "H1t"},
      {"H0", "H2", "F0"},
      \* an entry whose prefix is not what its sequence number asks for
      {"H0r"}, {"H0", "H0r"}, {"H0", "H1", "G1"} }

\* The verify calls of those runs: generation 1 with the signature of its
\* key, of another key and over another message, and generation 2.
LogInputs ==
    { In("H1", "H0", 2), In("H1", "H0", 3),
      [In("H1", "H0", 2) EXCEPT !.message = <<78>>],
      In("H2t", "H0", 3) }

InitLog ==
    /\ now = 0
    /\ InitNonceStore
    /\ store \in LogCases
    /\ InitVerifier("garden")
    /\ InitAccess
    /\ InitHandler
    /\ InitJson({<<>>}, {<<>>})

NextLog ==
    \/ Tick(MaxClock) /\ UNCHANGED <<nonceVars, verifierVars, accessVars, handlerVars, jsonVars>>
    \/ /\ \/ \E in \in LogInputs : VerifyCall(1, in)
          \/ VerifySteps({1}, BOOLEAN)
       /\ UNCHANGED <<now, nonceVars, accessVars, handlerVars, jsonVars>>

\* The garden-k8s KeyVerifier with one caller at a time over a store that
\* does not change: what a call fetched is what the store holds.
SpecLog == InitLog /\ [][NextLog]_vars

\* The logs of the runs where the store gains and loses entries of another
\* prefix next to the HSM chain: a valid one, one that is not
\* self-addressing, one with a signature of another key, one that breaks
\* its chain.
InitStill ==
    /\ now \in 0..MaxClock
    /\ InitNonceStore
    /\ store \in LogCases
    /\ InitVerifier("garden")
    /\ InitAccess
    /\ InitHandler
    /\ InitJson({<<>>}, {<<>>})

NextStill ==
    /\ \/ \E in \in LogInputs : VerifyCall(1, in)
       \/ VerifySteps({1}, BOOLEAN)
    /\ UNCHANGED <<now, nonceVars, accessVars, handlerVars, jsonVars>>

\* The garden-k8s KeyVerifier with one caller at a time, at any time of the
\* clock, which does not advance while the calls run: every Utc::now() of a
\* call reads the same time.
SpecStill == InitStill /\ [][NextStill]_vars

\* Logs whose newest entry has a createdAt that does not parse, and the log
\* without it.
ParseLogs == { {"H0", "H1"}, {"H0", "H1z"}, {"H0", "H1", "H2z"} }

ParseInputs ==
    { In("H0", "H0", 1), In("H1", "H0", 2), In("H1z", "H0", 2), In("H2z", "H0", 3) }

InitParse ==
    /\ now = 0
    /\ InitNonceStore
    /\ store \in ParseLogs
    /\ InitVerifierOver("basic", HsmParse)
    /\ InitAccess
    /\ InitHandler
    /\ InitJson({<<>>}, {<<>>})

NextParse ==
    \/ Tick(MaxClock) /\ UNCHANGED <<nonceVars, verifierVars, accessVars, handlerVars, jsonVars>>
    \/ /\ \/ \E log \in ParseLogs : StoreChange(log)
          \/ \E in \in ParseInputs : VerifyCall(1, in)
          \/ VerifySteps({1}, BOOLEAN)
       /\ UNCHANGED <<now, nonceVars, accessVars, handlerVars, jsonVars>>

\* The basic KeyVerifier with one caller at a time over a log whose newest
\* entry may have a createdAt that does not parse.
SpecParse == InitParse /\ [][NextParse]_vars

OtherLogs ==
    { {"H0", "H1"}, {"H0", "H1", "H2"},
      {"H0", "H1", "F0"}, {"H0", "H1", "F0a"}, {"H0", "H1", "F0x"},
      {"H0", "H1", "F0", "F1b"},
      {"H0", "H1", "H2", "F0"}, {"H0", "H1", "H2", "F0a"},
      {"H0", "H1", "H2", "F0x"}, {"H0", "H1", "H2", "F0", "F1b"} }

OtherInputs == { In("H1", "H0", 2), In("H2", "H0", 3) }

InitOther ==
    /\ now = 0
    /\ InitNonceStore
    /\ store \in OtherLogs
    /\ InitVerifier("garden")
    /\ InitAccess
    /\ InitHandler
    /\ InitJson({<<>>}, {<<>>})

NextOther ==
    \/ Tick(MaxClock) /\ UNCHANGED <<nonceVars, verifierVars, accessVars, handlerVars, jsonVars>>
    \/ /\ \/ \E log \in OtherLogs : StoreChange(log)
          \/ \E in \in OtherInputs : VerifyCall(1, in)
          \/ VerifySteps({1}, {FALSE})
       /\ UNCHANGED <<now, nonceVars, accessVars, handlerVars, jsonVars>>

\* The garden-k8s KeyVerifier with one caller at a time over a store where
\* the chain of another prefix comes and goes.
SpecOther == InitOther /\ [][NextOther]_vars

\* Last length, in chars, of what follows the marker in a generated text.
MaxSuffix == 5

\* The chars of the generated texts: '{', '}', ' ', and a char of two bytes.
JsonChars == {<<123>>, <<125>>, <<32>>, <<195, 169>>}

\* The texts get_sub_json is given: those of the unit tests, and every text
\* made of nothing, a '{' or a char of two bytes, then the marker "b": or
\* nothing, then at most MaxSuffix chars.
JsonTexts ==
    {TestSimple, TestNested, TestWithWhitespace, TestMissingLabel, TestMalformed}
    \cup { pre \o mid \o Bytes(suf) :
             pre \in {<<>>, <<123>>, <<195, 169>>},
             mid \in {<<>>, Query(<<98>>)},
             suf \in UNION { [1..n -> JsonChars] : n \in 0..MaxSuffix } }

JsonLabels == {LabelBody, <<98>>}

InitJsonCalls ==
    /\ now = 0
    /\ InitNonceStore
    /\ store = {}
    /\ InitVerifierOver("basic", NoHsm)
    /\ InitAccess
    /\ InitHandler
    /\ InitJson(JsonTexts, JsonLabels)

NextJson ==
    GetSubJson /\ UNCHANGED <<now, nonceVars, verifierVars, accessVars, handlerVars>>

\* get_sub_json over the texts of its unit tests and over short texts.
SpecJson == InitJsonCalls /\ [][NextJson]_vars

\* The calls of the runs with two tasks that call get and verify: get of a
\* device whose generation is in the log, which hits the cache once a call
\* has filled it, and verify of a generation the log does not hold, which
\* misses it every time.
LockIdentities == {"devL"}
LockInputs == {In("none", "H0", 2)}

InitLocks ==
    /\ now = MaxClock - 3
    /\ InitNonceStore
    /\ store = {"H0", "H1"}
    /\ variant \in {"garden", "basic"}
    /\ InitVerifierOver(variant, Hsm)
    /\ InitAccess
    /\ InitHandler
    /\ InitJson({<<>>}, {<<>>})

\* The steps task t takes inside get and inside verify.
TaskProgress(t) ==
    \/ /\ GetSteps({t}, {FALSE})
       /\ UNCHANGED <<now, nonceVars, handlerVars, jsonVars>>
    \/ /\ VerifySteps({t}, BOOLEAN)
       /\ UNCHANGED <<now, nonceVars, accessVars, handlerVars, jsonVars>>

NextLocks ==
    \/ /\ \E t \in Tasks, identity \in LockIdentities : GetCall(t, identity)
       /\ UNCHANGED <<now, nonceVars, verifierVars, handlerVars, jsonVars>>
    \/ /\ \E t \in Tasks, in \in LockInputs :
             apc[t] \in {"idle", "done"} /\ VerifyCall(t, in)
       /\ UNCHANGED <<now, nonceVars, accessVars, handlerVars, jsonVars>>
    \/ \E t \in Tasks : TaskProgress(t)

\* Two tasks that call get and verify of either example concurrently.  The
\* tokio mutexes hand the lock to the waiters in the order they came and the
\* commands of the stores return, with a value or with an error: a task
\* that can take a step again and again takes it.
SpecLocks == InitLocks /\ [][NextLocks]_vars /\ \A t \in Tasks : SF_vars(TaskProgress(t))

(***************************************************************************)
(* Properties of the nonce store (checked under SpecNonce).                *)
(* A history record holds: at, the clock at the call's check; prev, the    *)
(* valid_at it found (NoTime: none); ok, its result; wrote and wroteAt,    *)
(* the valid_at a successful call inserted and the clock it read for it.   *)
(***************************************************************************)
Calls == 1..Len(rlog)

\* C1: replay defence. If reserve(x) succeeded at time t (any clock value the
\* call read), every other reserve(x) whose check happens at a time t' with
\* t <= t' < t + Lifetime fails ("value reserved too recently"), whatever
\* calls on other nonces happen in between.
C1_ReplayRejected ==
    \A i, j \in Calls :
        ( /\ i # j
          /\ rlog[i].ok
          /\ rlog[j].value = rlog[i].value
          /\ \E t \in {rlog[i].at, rlog[i].wroteAt} :
                t <= rlog[j].at /\ rlog[j].at < t + Lifetime )
        => ~rlog[j].ok

\* Witness of C1: a successful reserve(x), then a call on another nonce, then
\* a reserve(x) inside the lifetime window that was rejected.
C1_Witness ==
    \E i, k, j \in Calls :
        /\ i < k /\ k < j
        /\ rlog[i].ok /\ ~rlog[j].ok
        /\ rlog[j].value = rlog[i].value
        /\ rlog[k].value # rlog[i].value /\ rlog[k].ok
        /\ rlog[i].wroteAt < rlog[j].at
        /\ rlog[j].at < rlog[i].wroteAt + Lifetime

\* The calls of S are for one nonce and all within Lifetime of each other.
Burst(S) ==
    \A i, j \in S :
        /\ rlog[i].value = rlog[j].value
        /\ rlog[i].at - rlog[j].at < Lifetime

\* The first call of S (in order of the critical sections).
FirstOf(S) == CHOOSE i \in S : \A j \in S : i <= j

\* C9: reserve is a critical section. At most one task is between the check
\* and the write, and it holds the mutex; and of any calls for one nonce that
\* all fall within Lifetime of each other, the first finding the nonce not
\* reserved, exactly one succeeds and the others fail.
C9_ExactlyOneWinner ==
    /\ \A t, u \in Tasks :
          (rpc[t] \in {"check", "insert"} /\ rpc[u] \in {"check", "insert"})
          => t = u
    /\ \A t \in Tasks : rpc[t] \in {"check", "insert"} => noncesLock = t
    /\ \A S \in SUBSET Calls :
          ( /\ S # {}
            /\ Lifetime > 0
            /\ Burst(S)
            /\ LET f == rlog[FirstOf(S)]
               IN f.prev = NoTime \/ f.prev <= f.at )
          => Cardinality({i \in S : rlog[i].ok}) = 1

\* Witness of C9: two tasks called reserve(x) for the same x while the other
\* call was in flight, at the same clock value; one won and one lost.
C9_Witness ==
    \E i, j \in Calls :
        /\ i < j
        /\ rlog[i].task # rlog[j].task
        /\ rlog[i].value = rlog[j].value
        /\ rlog[j].racing
        /\ rlog[i].at = rlog[j].at
        /\ rlog[i].ok /\ ~rlog[j].ok

\* C10: reserve(x) succeeds exactly when x has no record or the clock has
\* reached valid_at[x]; a successful call inserts the clock plus Lifetime;
\* and so a call succeeds exactly when no earlier successful call for x wrote
\* a window that is still open, in particular two calls more than Lifetime
\* apart both succeed.
C10_ReserveExactly ==
    /\ \A i \in Calls :
          /\ rlog[i].ok <=> (rlog[i].prev = NoTime \/ rlog[i].at >= rlog[i].prev)
          /\ rlog[i].ok => /\ rlog[i].wrote = rlog[i].wroteAt + Lifetime
                           /\ rlog[i].wroteAt >= rlog[i].at
          /\ rlog[i].ok <=>
                ~ \E k \in 1..(i - 1) :
                      /\ rlog[k].value = rlog[i].value
                      /\ rlog[k].ok
                      /\ rlog[i].at < rlog[k].wroteAt + Lifetime
    /\ \A x \in Nonces :
          LET oks == {i \in Calls : rlog[i].ok /\ rlog[i].value = x}
          IN nonces[x] = IF oks = {} THEN NoTime
                         ELSE rlog[CHOOSE i \in oks : \A j \in oks : j <= i].wrote

\* Witness of C10: two successful reserve(x) calls more than Lifetime apart.
C10_Witness ==
    \E i, j \in Calls :
        /\ i < j
        /\ rlog[i].value = rlog[j].value
        /\ rlog[i].ok /\ rlog[j].ok
        /\ rlog[j].at > rlog[i].wroteAt + Lifetime
        /\ nonces[rlog[j].value] = rlog[j].wroteAt + Lifetime

(***************************************************************************)
(* Properties of the garden-k8s KeyVerifier (checked under Spec, and under *)
(* SpecConc where two callers are needed).                                 *)
(***************************************************************************)
\* The entries of the cache, by record name.
Cached == {x.key : x \in cache}

\* C2: taint propagation. After a miss-path repopulation over a chain in
\* which some entry e_k has taintPrevious = true, no entry e_j with j < k is
\* in the cache (every j < k, not only k - 1).
C2_TaintPropagates ==
    \A t \in Tasks :
        vpc[t] = "find" =>
            \A a, b \in DOMAIN vrecords[t] :
                (a < b /\ Payload(vrecords[t][b]).taintPrevious = "true")
                => CacheGet(cache, Payload(vrecords[t][a]).id) = {}

C4_OneSnapshot ==
    \A x, y \in cache : x.from = y.from

\* C5: with no other verify in flight, a miss-path verify that fails before
\* the cache walk (while fetching or validating the log) returns with an
\* empty cache.
C5_FailedValidationLeavesCacheEmpty ==
    \A t \in Tasks :
        (vpc[t] = "done" /\ vres[t].stage \in {"fetch", "validate"})
        => (vres[t].result # "ok" /\ cache = {})

\* Witness of C5: a verify that missed a cache holding entries and failed in
\* the validation of the log.
C5_Witness ==
    \E t \in Tasks :
        /\ vpc[t] = "done" /\ vres[t].stage = "validate"
        /\ vwarm[t]
        /\ cache = {}

\* The records of `values` one sequence number before k in k's group.
Predecessors(values, k) ==
    {j \in values :
        /\ Payload(j).prefix = Payload(k).prefix
        /\ Payload(j).sequenceNumber = Payload(k).sequenceNumber - 1}

\* `values` is a valid log at clock t but for the order of the timestamps
\* inside the chains, which may be equal (not decreasing).
ValidButForEqualTimestamps(values, t) ==
    /\ \A k \in values :
          /\ hsm.values[k].parses
          /\ k \in hsm.addressOk /\ k \in hsm.signatureOk
          /\ Payload(k).sequenceNumber = 0 => Payload(k).id = Payload(k).prefix
          /\ Payload(k).createdAt # BadTimestamp /\ Payload(k).createdAt < t
          /\ Payload(k).sequenceNumber \in 0..(Cardinality(values) - 1)
          /\ \A j \in values :
                ( /\ j # k
                  /\ Payload(j).prefix = Payload(k).prefix )
                => Payload(j).sequenceNumber # Payload(k).sequenceNumber
          /\ Payload(k).sequenceNumber >= 1 =>
                \E j \in Predecessors(values, k) :
                    /\ Payload(k).previous = Payload(j).id
                    /\ Blake3(Payload(k).publicKey) = Payload(j).rotationHash
                    /\ Payload(k).createdAt >= Payload(j).createdAt

HasEqualTimestamps(values) ==
    \E k \in values : \E j \in Predecessors(values, k) :
        Payload(k).createdAt = Payload(j).createdAt

\* C6: whenever a miss-path verify reaches the cache walk, every fetched
\* entry at a sequence number n >= 1 has a predecessor at n - 1 in its group
\* whose rotationHash is the digest of its public key, whose id is its
\* previous and whose createdAt is strictly earlier; and a log with an entry
\* whose createdAt equals its predecessor's does not pass the validation:
\* it fails, with "non-increasing timestamp" when that is its only defect.
C6_ChainLinked ==
    /\ [](\A t \in Tasks :
            vpc[t] \in {"walk", "find"} =>
                \A k \in vvalues[t] :
                    Payload(k).sequenceNumber >= 1 =>
                        \E j \in Predecessors(vvalues[t], k) :
                            /\ Blake3(Payload(k).publicKey) = Payload(j).rotationHash
                            /\ Payload(k).previous = Payload(j).id
                            /\ Payload(k).createdAt > Payload(j).createdAt)
    /\ [][\A t \in Tasks :
            ( /\ vpc[t] = "validate"
              /\ vpc'[t] # "validate"
              /\ HasEqualTimestamps(vvalues[t]) )
            => /\ vpc'[t] = "done"
               /\ vres'[t].stage = "validate"
               /\ ValidButForEqualTimestamps(vvalues[t], now)
                    => vres'[t].result = "non-increasing timestamp"]_vars

\* Witness of C6: a verify refused a log whose generation 1 carries the
\* timestamp of generation 0, after an earlier call had walked a valid chain.
C6_Witness ==
    \E t \in Tasks :
        /\ vpc[t] = "done"
        /\ vres[t] = [stage |-> "validate", result |-> "non-increasing timestamp"]
        /\ store = {"H0", "H1s"}
        /\ vwarm[t]

(***************************************************************************)
(* Properties of the basic access key store (checked under SpecStore).     *)
(***************************************************************************)
\* The record a task's get call read.
Stored(t) == AccessRec[aident[t]]

\* C7: get(identity) returns a verification key only if, for the stored
\* record, KeyVerifier.verify succeeded for (record.signature,
\* body.hsm.identity, body.hsm.generationId, raw body JSON), the purpose is
\* "access" and the expiration is strictly greater than the clock at the
\* check; the key returned is body.payload.publicKey.  A record that passes
\* the other checks with an expiration equal to the clock fails with
\* `key expired`.
C7_GetReturnsAuthorizedKey ==
    \A t \in Tasks :
        apc[t] = "done" =>
            /\ ares[t].ok =>
                  /\ aident[t] \in DOMAIN AccessRec
                  /\ vpc[t] = "done" /\ vres[t].result = "ok"
                  /\ vin[t].signature = Stored(t).signature
                  /\ vin[t].identity = Stored(t).body.hsm.identity
                  /\ vin[t].gen = Stored(t).body.hsm.generationId
                  /\ vin[t].message = BodyJson(Stored(t).body)
                  /\ Stored(t).body.payload.purpose = "access"
                  /\ Stored(t).body.payload.expiration > ares[t].at
                  /\ ares[t].key = Stored(t).body.payload.publicKey
            /\ ( /\ ares[t].err \notin {"Redis error", "failed to parse response"}
                 /\ vres[t].result = "ok"
                 /\ Stored(t).body.payload.purpose = "access"
                 /\ Stored(t).body.payload.expiration = ares[t].at )
               => (~ares[t].ok /\ ares[t].err = "key expired")

\* Witness of C7: a get that returned a key one clock unit before its
\* expiration.
C7_Witness ==
    \E t \in Tasks :
        /\ apc[t] = "done" /\ ares[t].ok
        /\ Stored(t).body.payload.expiration = ares[t].at + 1

(***************************************************************************)
(* Properties of the handler (checked under SpecHandler).                  *)
(***************************************************************************)
\* Task u's request repeats, byte for byte, the request task t was answered
\* 200 for, and its reservation was tried after t's and less than Lifetime
\* after it.
Replays(u, t) ==
    /\ u # t
    /\ hpc[t] = "done" /\ hres[t].status = 200
    /\ hres[u].rix > hres[t].rix
    /\ hreq[u] = hreq[t]
    /\ rlog[hres[u].rix].at < rlog[hres[t].rix].at + Lifetime

\* C8: the nonce is reserved before the verification key is fetched and
\* before any signature is checked: a request whose reservation has not
\* succeeded has called neither VerificationKeyStore.get nor
\* KeyVerifier.verify nor the signature check and is not answered 200, and
\* a request that repeats an accepted one within Lifetime is answered 500
\* `value reserved too recently`.
C8_ReservedBeforeAccepted ==
    \A t \in Tasks :
        /\ ~hres[t].reserved =>
              /\ hcalled[t] \subseteq {"reserve"}
              /\ hres[t].status # 200
              /\ hpc[t] \in {"idle", "reserve", "done"}
        /\ hcalled[t] # {} => "reserve" \in hcalled[t]
        /\ \A u \in Tasks :
              (hpc[u] = "done" /\ Replays(u, t)) =>
                  /\ hres[u].status = 500
                  /\ hres[u].err = "value reserved too recently"
                  /\ hcalled[u] = {"reserve"}

\* Witness of C8: a request was accepted and its repetition refused.
C8_Witness ==
    \E t, u \in Tasks :
        /\ hpc[u] = "done" /\ Replays(u, t)
        /\ hres[u].err = "value reserved too recently"

\* C11: every failing request is answered status 500 with one and the same
\* generic body: the bodies of any two error answers are equal, whichever
\* check failed (replay, signature, key store, revoked device, permission).
C11_GenericErrorBody ==
    \A t, u \in Tasks :
        ( /\ hpc[t] = "done" /\ hres[t].err # "none"
          /\ hpc[u] = "done" /\ hres[u].err # "none" )
        => /\ hres[t].status = 500
           /\ hres[u].status = 500
           /\ hres[t].body = hres[u].body

(***************************************************************************)
(* Properties of the validation of the log (checked under SpecLog, where   *)
(* the values a call fetched are the keys of `store`).                     *)
(***************************************************************************)
\* The validation accepts the log `values` at clock t.
Accepts(values, t) == ValidationResults(values, t) = {"ok"}

\* The log with the record stored under k replaced by the one under o.
With(values, k, o) == (values \ {k}) \cup {o}

\* A verify call of task t has failed in the validation of the log.
Refused(t) == vpc[t] = "done" /\ vres[t].stage = "validate"

\* Record k is record o with nothing but `field` changed in the stored
\* payload: the id and the signature are those of o.
OnlyChanged(k, o, field) ==
    /\ hsm.values[k].signature = hsm.values[o].signature
    /\ Payload(k)[field] # Payload(o)[field]
    /\ \A f \in DOMAIN Payload(o) : f # field => Payload(k)[f] = Payload(o)[f]

\* The store holds a log that is valid but for `field` of the stored payload
\* of one entry at a sequence number >= 1.
OneFieldChanged(field, t) ==
    \E k \in store, o \in RecKeys \ store :
        /\ Payload(o).sequenceNumber >= 1
        /\ OnlyChanged(k, o, field)
        /\ Payload(k)[field] # NoString
        /\ Accepts(With(store, k, o), t)

\* C12 as stated: changing only `previous` in the stored payload of an entry
\* at a sequence number >= 1 of an otherwise valid log makes a miss-path
\* verify fail with `broken chain`.
C12_PreviousChangedBrokenChain ==
    \A t \in Tasks :
        (Refused(t) /\ OneFieldChanged("previous", now))
        => vres[t].result = "broken chain"

\* C12 as amended: such a change makes a miss-path verify fail with
\* `id does not match hash of payload`, and no call on that log succeeds.
C12_PreviousChangedIdMismatch ==
    \A t \in Tasks :
        OneFieldChanged("previous", now) =>
            /\ Refused(t) => vres[t].result = "id does not match hash of payload"
            /\ vpc[t] = "done" => vres[t].stage \in {"fetch", "validate"}

\* Witness of C12: a verify refused the chain whose generation 2 had its
\* previous changed to the id of generation 0.
C12_Witness ==
    \E t \in Tasks :
        /\ Refused(t)
        /\ store = {"H0", "H1", "H2a"}
        /\ OneFieldChanged("previous", now)
        /\ vres[t].result = "id does not match hash of payload"

\* The store holds a single chain of length 2.
SingleChainOfTwo ==
    Cardinality(store) = 2 /\ Cardinality(Prefixes(store)) = 1

\* C13 as stated: in a valid single-chain log of length 2, replacing the
\* publicKey of the stored payload of the sequence-1 entry with another key
\* makes a miss-path verify fail with `bad commitment`.
C13_KeyReplacedBadCommitment ==
    \A t \in Tasks :
        (Refused(t) /\ SingleChainOfTwo /\ OneFieldChanged("publicKey", now))
        => vres[t].result = "bad commitment"

\* C13 as amended: such a replacement makes a miss-path verify fail with
\* `id does not match hash of payload`, and no call on that log succeeds.
C13_KeyReplacedIdMismatch ==
    \A t \in Tasks :
        (SingleChainOfTwo /\ OneFieldChanged("publicKey", now)) =>
            /\ Refused(t) => vres[t].result = "id does not match hash of payload"
            /\ vpc[t] = "done" => vres[t].stage \in {"fetch", "validate"}

\* Witness of C13: a verify refused the chain of length 2 whose generation 1
\* had its public key replaced.
C13_Witness ==
    \E t \in Tasks :
        /\ Refused(t)
        /\ store = {"H0", "H1k"}
        /\ SingleChainOfTwo /\ OneFieldChanged("publicKey", now)
        /\ vres[t].result = "id does not match hash of payload"

\* The store holds a valid chain e_0, e_1, e_2 of the HSM whose e_2 has
\* taintPrevious = true.
TaintedChainOfThree(t) ==
    /\ Cardinality(store) = 3
    /\ Prefixes(store) = {HSM_IDENTITY}
    /\ Accepts(store, t)
    /\ \E k \in store :
          Payload(k).sequenceNumber = 2 /\ Payload(k).taintPrevious = "true"

\* The generation a call claims is the entry of the store at sequence n.
ClaimsSequence(in, n) ==
    \E k \in store :
        Payload(k).sequenceNumber = n /\ GenerationId(in) = Payload(k).id

SelfAddressing(k) ==
    Blake3(Replace(PayloadJson(Payload(k)), Payload(k).id, Placeholder))
        = Payload(k).id

\* No check that comes before the self-address check of an entry fails in
\* the log: every value parses, a sequence-0 entry has id = prefix, and the
\* signature of every self-addressing entry verifies.
NothingFailsBeforeAddress(values) ==
    \A k \in values :
        /\ hsm.values[k].parses
        /\ Payload(k).sequenceNumber = 0 => Payload(k).id = Payload(k).prefix
        /\ SelfAddressing(k) =>
              SignatureVerifies(PayloadJson(Payload(k)), hsm.values[k].signature,
                                Payload(k).publicKey)

\* C15: every entry of every prefix group of a log that passes the
\* validation is self-addressing (its raw payload with every occurrence of
\* the id replaced by the placeholder hashes to its id); a log with an entry
\* that is not never passes, and it fails with `id does not match hash of
\* payload` when no earlier check fails.
C15_SelfAddressing ==
    \A t \in Tasks :
        /\ ( \/ vpc[t] \in {"walk", "find"}
             \/ vpc[t] = "done" /\ vres[t].stage \in {"walk", "find"} )
           => \A k \in store : SelfAddressing(k)
        /\ ( /\ Refused(t)
             /\ \E k \in store : ~SelfAddressing(k)
             /\ NothingFailsBeforeAddress(store) )
           => vres[t].result = "id does not match hash of payload"

\* Witness of C15: a verify refused, with `id does not match hash of
\* payload`, a log whose generation 1 is signed by its own key over a
\* payload that does not hash to its id, next to an entry that passed.
C15_Witness ==
    \E t \in Tasks :
        /\ Refused(t)
        /\ store = {"H0", "H1w"}
        /\ SelfAddressing("H0") /\ ~SelfAddressing("H1w")
        /\ NothingFailsBeforeAddress(store)
        /\ SignatureVerifies(PayloadJson(Payload("H1w")),
                             hsm.values["H1w"].signature, Payload("H1w").publicKey)
        /\ vres[t].result = "id does not match hash of payload"

\* Every entry of the log passes the checks made of an entry by itself at
\* clock t: it parses, is self-addressing, carries the signature of its own
\* key, has id = prefix at sequence 0 and a createdAt before t.
PerEntryOk(values, t) ==
    \A k \in values :
        /\ hsm.values[k].parses
        /\ SelfAddressing(k)
        /\ SignatureVerifies(PayloadJson(Payload(k)), hsm.values[k].signature,
                             Payload(k).publicKey)
        /\ Payload(k).sequenceNumber = 0 => Payload(k).id = Payload(k).prefix
        /\ Payload(k).createdAt # BadTimestamp
        /\ Payload(k).createdAt < t

\* Every entry is linked to the entries one sequence number before it.
Linked(values) ==
    \A k \in values : \A j \in Predecessors(values, k) :
        /\ Payload(k).previous = Payload(j).id
        /\ Payload(k).createdAt > Payload(j).createdAt
        /\ Blake3(Payload(k).publicKey) = Payload(j).rotationHash

\* In every prefix group the sequence numbers are 0, 1, ..., N-1, each once.
Contiguous(values) ==
    \A p \in Prefixes(values) :
        LET g == Group(values, p)
        IN \A n \in 0..(Cardinality(g) - 1) :
              Cardinality({k \in g : Payload(k).sequenceNumber = n}) = 1

\* C16: a log passes the validation only if in every prefix group the
\* sequence numbers are exactly 0, 1, ..., N-1, without gap or duplicate;
\* and the validation of a log with a missing or a repeated index whose
\* entries pass the other checks returns `bad sequence number`.
C16_ContiguousSequence ==
    /\ [](\A t \in Tasks :
            ( \/ vpc[t] \in {"walk", "find"}
              \/ vpc[t] = "done" /\ vres[t].stage \in {"walk", "find"} )
            => Contiguous(store))
    /\ [][\A t \in Tasks :
            ( /\ vpc[t] = "validate"
              /\ vpc'[t] # "validate"
              /\ ~Contiguous(vvalues[t])
              /\ PerEntryOk(vvalues[t], now)
              /\ Linked(vvalues[t]) )
            => /\ vpc'[t] = "done"
               /\ vres'[t] = [stage |-> "validate",
                              result |-> "bad sequence number"]]_vars

\* Witness of C16: a verify refused, with `bad sequence number`, the chain
\* of generations 0 and 2 (index 1 missing), every entry of which passes
\* the checks made of it alone.
C16_Witness ==
    \E t \in Tasks :
        /\ Refused(t)
        /\ store = {"H0", "H2"}
        /\ ~Contiguous(store) /\ PerEntryOk(store, now) /\ Linked(store)
        /\ vres[t].result = "bad sequence number"

\* Every entry of the log passes the checks made of an entry by itself,
\* whatever the clock.
PerEntryOkButTime(values) ==
    \E t \in 0..(MaxClock + 1) : PerEntryOk(values, t)

\* C17: the garden-k8s validation accepts only entries with createdAt
\* strictly less than the clock: a log that reaches the cache walk has no
\* entry with createdAt >= now, and the validation of an otherwise valid log
\* with an entry, of any prefix group, whose createdAt is equal to or later
\* than the clock returns `future timestamp`.
C17_FutureTimestamp ==
    /\ [](\A t \in Tasks :
            vpc[t] \in {"walk", "find"} =>
                \A k \in vvalues[t] : Payload(k).createdAt < now)
    /\ [][\A t \in Tasks :
            ( /\ vpc[t] = "validate"
              /\ vpc'[t] # "validate"
              /\ variant = "garden"
              /\ \E k \in vvalues[t] : Payload(k).createdAt >= now
              /\ PerEntryOkButTime(vvalues[t])
              /\ Contiguous(vvalues[t])
              /\ Linked(vvalues[t]) )
            => /\ vpc'[t] = "done"
               /\ vres'[t] = [stage |-> "validate",
                              result |-> "future timestamp"]]_vars

\* Witness of C17: a verify refused, with `future timestamp`, a valid chain
\* next to the chain of another prefix at the very clock value of the
\* createdAt of its newest entry.
C17_Witness ==
    \E t \in Tasks :
        /\ Refused(t)
        /\ store = {"H0", "H1", "F0"}
        /\ PerEntryOkButTime(store) /\ Contiguous(store) /\ Linked(store)
        /\ Payload("H1").createdAt = now
        /\ vres[t].result = "future timestamp"

(***************************************************************************)
(* Further properties of the basic access key store (under SpecStore).     *)
(***************************************************************************)
\* C18: get fails with `key expired` only after the key-log verification of
\* the record has succeeded, the cache holding the generation that
\* authorized it; and a record whose verification succeeded and whose
\* purpose is "access" but whose expiration is in the past fails with
\* `key expired`.
C18_ExpiredAfterVerification ==
    \A t \in Tasks :
        apc[t] = "done" =>
            /\ ares[t].err = "key expired" =>
                  /\ ~ares[t].ok
                  /\ aident[t] \in DOMAIN AccessRec
                  /\ vpc[t] = "done" /\ vres[t].result = "ok"
                  /\ vin[t] = KeyInput(Stored(t))
                  /\ CacheGet(cache, GenerationId(vin[t])) # {}
                  /\ Stored(t).body.payload.expiration <= ares[t].at
            /\ ( /\ aident[t] \in DOMAIN AccessRec
                 /\ ares[t].err \notin {"Redis error", "failed to parse response"}
                 /\ vres[t].result = "ok"
                 /\ Stored(t).body.payload.purpose = "access"
                 /\ Stored(t).body.payload.expiration # BadTimestamp
                 /\ Stored(t).body.payload.expiration < ares[t].at )
               => (~ares[t].ok /\ ares[t].err = "key expired")

\* Witness of C18: a get of a record whose expiration was one clock unit in
\* the past returned `key expired` with the cache populated.
C18_Witness ==
    \E t \in Tasks :
        /\ apc[t] = "done" /\ ares[t].err = "key expired"
        /\ Stored(t).body.payload.expiration = ares[t].at - 1
        /\ vres[t].result = "ok"
        /\ cache # {}

\* C19: when the read of the record keeps failing, get makes 3 retries after
\* the first attempt, sleeping 100 ms before the first and twice the last
\* wait before each further one, and then returns the read error.
C19_ThreeRetries ==
    \A t \in Tasks :
        (apc[t] = "done" /\ ares[t].err = "Redis error") =>
            /\ ~ares[t].ok
            /\ aattempt[t] = 3
            /\ ares[t].waits = <<100, 200, 400>>

(***************************************************************************)
(* Further properties of the garden-k8s KeyVerifier (under Spec).          *)
(***************************************************************************)
\* C20: a verify call whose KEYS finds no key fails with `No HSM keys found`
\* and leaves the cache empty: that error is returned from the fetch with
\* an empty cache, and a call that reads the keys of an empty store returns
\* it (or the error of the store, when KEYS itself fails).
C20_NoKeysFound ==
    /\ [](\A t \in Tasks :
            (vpc[t] = "done" /\ vres[t].result = "No HSM keys found in Redis")
            => (vres[t].stage = "fetch" /\ cache = {}))
    /\ [][\A t \in Tasks :
            (vpc[t] = "keys" /\ vpc'[t] # "keys" /\ store = {})
            => /\ vpc'[t] = "done"
               /\ vres'[t].stage = "fetch"
               /\ vres'[t].result \in {"No HSM keys found in Redis",
                                        "Redis keys error"}
               /\ cache' = {}]_vars

\* Witness of C20: a call that missed a cache holding entries found the
\* store empty and returned `No HSM keys found` with the cache empty.
C20_Witness ==
    \E t \in Tasks :
        /\ vpc[t] = "done"
        /\ vres[t] = [stage |-> "fetch", result |-> "No HSM keys found in Redis"]
        /\ vwarm[t]
        /\ store = {}
        /\ cache = {}

(***************************************************************************)
(* Properties of get_sub_json (checked under SpecJson).                    *)
(***************************************************************************)
\* The offset of the first '{' of data at or after offset from.
FirstOpen(data, from) ==
    LET at == { i \in from..(Len(data) - 1) : data[i + 1] = 123 }
    IN IF at = {} THEN NoOffset ELSE CHOOSE i \in at : \A j \in at : i <= j

\* The offset of the '}' that closes the '{' at offset open: the first one
\* at which as many '}' as '{' have been read since open.
RECURSIVE MatchingClose(_, _, _)
MatchingClose(data, i, depth) ==
    IF i >= Len(data) THEN NoOffset
    ELSE IF data[i + 1] = 123 THEN MatchingClose(data, i + 1, depth + 1)
    ELSE IF data[i + 1] = 125
    THEN IF depth = 1 THEN i ELSE MatchingClose(data, i + 1, depth - 1)
    ELSE MatchingClose(data, i + 1, depth)

\* The offset after the marker of the call, of the first '{' after it and of
\* the '}' that closes it.
AfterMarker == Find(jdata, Query(jlabel)) + Len(Query(jlabel))
ObjectOpen ==
    IF Find(jdata, Query(jlabel)) = NoOffset THEN NoOffset
    ELSE FirstOpen(jdata, AfterMarker)
ObjectClose ==
    IF ObjectOpen = NoOffset THEN NoOffset ELSE MatchingClose(jdata, ObjectOpen, 0)

\* C21: when get_sub_json succeeds, it returns exactly the substring of data
\* that starts at the first '{' after the marker "<label>": and ends at its
\* matching '}' inclusive; the result begins with '{' also when whitespace
\* separates the marker from the '{', as the unit tests of utils.rs expect.
C21_ExtractsObject ==
    /\ jres.kind = "ok" =>
           /\ ObjectClose # NoOffset
           /\ jres.value = SubSeq(jdata, ObjectOpen + 1, ObjectClose + 1)
    /\ jres.kind # "none" /\ jlabel = LabelBody =>
           /\ jdata = TestSimple => jres = Extracted(ExpectedSimple)
           /\ jdata = TestNested => jres = Extracted(ExpectedNested)
           /\ jdata = TestWithWhitespace => jres = Extracted(ExpectedWithWhitespace)

\* C22: get_sub_json fails with "missing <label>" when the marker is absent
\* and with "failed to extract" when the marker occurs but no '}' closes
\* the first '{' after it; it returns a value in neither case.
C22_ExtractErrors ==
    jres.kind # "none" =>
        /\ Find(jdata, Query(jlabel)) = NoOffset =>
               /\ jres.kind = "err"
               /\ SubSeq(jres.err, 1, 2) = <<"missing ", jlabel>>
        /\ Find(jdata, Query(jlabel)) # NoOffset /\ ObjectClose = NoOffset =>
               /\ jres.kind = "err"
               /\ jres.err[1] = "failed to extract "

(***************************************************************************)
(* Properties of the revoked-devices lookup (checked under SpecRevoke).    *)
(***************************************************************************)
\* C23: in the garden handler a request whose token.device is in the
\* revoked-devices store is never answered 200: it is answered 500, also
\* when AccessVerifier.verify succeeded and the token carries `read`; and
\* every answer 200 is given to a device the store does not hold.
C23_RevokedNever200 ==
    [][\A t \in Tasks :
         /\ hpc[t] = "verified" /\ hpc'[t] = "done"
                /\ hreq[t].body.device \in revoked
            => hres'[t].status = 500
         /\ hres[t].status # 200 /\ hres'[t].status = 200
            => hreq[t].body.device \notin revoked]_vars

C23_Witness ==
    \E t \in Tasks :
        /\ hpc[t] = "done"
        /\ hres[t].status = 500
        /\ hres[t].err = "device revoked"
        /\ hreq[t].body.token = "read"
        /\ "signature" \in hcalled[t]
        /\ hreq[t].body.device \in revoked

(***************************************************************************)
(* Properties of the repopulation of the cache (checked under SpecLog).    *)
(* At "find" the walk of the task has just run under the cache lock:       *)
(* vrecords holds the chain it walked, oldest first, and the cache what it *)
(* inserted.                                                               *)
(***************************************************************************)
\* The cached entry of the j-th entry of chain s, if any.
CachedOf(s, j) == CacheGet(cache, Payload(s[j]).id)

\* C24: after the repopulation the newest entry of the HSM chain is cached
\* with no expiration, and every older cached entry e_j with an expiration
\* equal to the createdAt of e_(j+1), the next newer entry of the chain
\* whether or not that one is cached, plus the verification window.
C24_ExpirationFromNextNewer ==
    \A t \in Tasks :
        vpc[t] = "find" =>
            LET s == vrecords[t]
            IN /\ \E x \in CachedOf(s, Len(s)) : x.expiration = NoTime
               /\ \A x \in cache : \E j \in 1..Len(s) : x \in CachedOf(s, j)
               /\ \A j \in 1..Len(s) : \A x \in CachedOf(s, j) :
                      x.expiration = IF j = Len(s) THEN NoTime
                                     ELSE Payload(s[j + 1]).createdAt + Window

\* A chain of three whose oldest entry is cached with an expiration while
\* the entry after it is not cached.
C24_Witness ==
    \E t \in Tasks :
        /\ vpc[t] = "find"
        /\ Len(vrecords[t]) = 3
        /\ CachedOf(vrecords[t], 2) = {}
        /\ \E x \in CachedOf(vrecords[t], 1) :
              x.expiration = Payload(vrecords[t][2]).createdAt + Window

\* C25 as stated: every cached entry whose expiration is set has an
\* expiration equal to its own createdAt plus the verification window.
C25_ExpirationOwnCreatedAt ==
    \A x \in cache :
        x.expiration # NoTime =>
            x.expiration = Payload(x.key).createdAt + Window

\* C25, amended: every cached entry whose expiration is set has an
\* expiration later than its own createdAt plus the verification window,
\* because it is the createdAt of a newer entry of the chain plus the
\* window.
C25_ExpirationAfterOwnWindow ==
    \A x \in cache :
        x.expiration # NoTime =>
            /\ x.expiration > Payload(x.key).createdAt + Window
            /\ \E k \in x.from :
                  /\ Payload(k).prefix = Payload(x.key).prefix
                  /\ Payload(k).sequenceNumber = Payload(x.key).sequenceNumber + 1
                  /\ x.expiration = Payload(k).createdAt + Window

C25_Witness ==
    \E x \in cache :
        /\ x.expiration # NoTime
        /\ x.expiration = Payload(x.key).createdAt + Window + 1

\* The entries of chain s newer than the j-th are all within the window at
\* time t: createdAt + window >= t.
NewerWithinWindow(s, j, t) ==
    \A k \in (j + 1)..Len(s) : Payload(s[k]).createdAt + Window >= t

\* C26: the walk visits the chain from the newest entry to the oldest and
\* stops right after the first visited entry whose createdAt + window < now.
\* In the cache a walk leaves, e_j is there only if every newer e_k has
\* createdAt + window >= now, and it is there if moreover the entry after it
\* does not taint it; the newest entry is there however old it is.
C26_WalkStopsPastWindow ==
    [][\A t \in Tasks :
         vpc[t] = "walk" /\ vpc'[t] = "find" =>
             LET s == vrecords[t]
                 cached(j) == CacheGet(cache', Payload(s[j]).id) # {}
             IN /\ cached(Len(s))
                /\ \A j \in 1..Len(s) :
                      /\ cached(j) => NewerWithinWindow(s, j, now)
                      /\ /\ NewerWithinWindow(s, j, now)
                         /\ j < Len(s) => Payload(s[j + 1]).taintPrevious # "true"
                         => cached(j)]_vars

\* The newest entry is cached although its window has passed, and the entry
\* before it, which it does not taint, is not cached: the walk stopped.
C26_Witness ==
    \E t \in Tasks :
        /\ vpc[t] = "find"
        /\ Len(vrecords[t]) >= 2
        /\ LET s == vrecords[t]
           IN /\ Payload(s[Len(s)]).createdAt + Window < now
              /\ Payload(s[Len(s)]).taintPrevious # "true"
              /\ CachedOf(s, Len(s)) # {}
              /\ CachedOf(s, Len(s) - 1) = {}

(***************************************************************************)
(* Properties of the validation of the other prefix groups (checked under  *)
(* SpecOther).                                                             *)
(***************************************************************************)
\* An entry of `values` with a prefix other than HSM_IDENTITY fails the
\* self-address check, the check of its signature or a check of its chain.
OtherPrefixFails(values) ==
    \E k \in values :
        /\ Payload(k).prefix # HSM_IDENTITY
        /\ \/ ~SelfAddressing(k)
           \/ ~SignatureVerifies(PayloadJson(Payload(k)), hsm.values[k].signature,
                                 Payload(k).publicKey)
           \/ Payload(k).sequenceNumber >= 1
                 /\ \E j \in Predecessors(values, k) :
                       \/ Payload(k).previous # Payload(j).id
                       \/ Blake3(Payload(k).publicKey) # Payload(j).rotationHash

\* C27: the validation covers every prefix group: one entry of another
\* prefix that fails the self-address, the signature or the chain check makes
\* verify fail for every generation that is not cached already (every call
\* that fetches the log returns an error from the validation, before the
\* walk), and nothing is cached from that snapshot.
C27_OtherPrefixValidated ==
    /\ [](\A t \in Tasks :
            /\ vpc[t] \in {"walk", "find"} => ~OtherPrefixFails(vvalues[t])
            /\ \A x \in cache : ~OtherPrefixFails(x.from))
    /\ [][\A t \in Tasks :
            vpc[t] = "validate" /\ vpc'[t] # "validate"
                /\ OtherPrefixFails(vvalues[t])
            => /\ vpc'[t] = "done"
               /\ vres'[t].stage = "validate"
               /\ vres'[t].result # "ok"
               /\ cache' = {}]_vars

\* A call for generation 2 with a good signature was refused in the
\* validation while the HSM chain in the store is valid and only an entry of
\* another prefix is not.
C27_Witness ==
    \E t \in Tasks :
        /\ Refused(t)
        /\ vin[t] = In("H2", "H0", 3)
        /\ cache = {}
        /\ vres[t].result \in {"id does not match hash of payload", "invalid signature",
                               "broken chain"}
        /\ OtherPrefixFails(store)
        /\ Accepts(Group(store, HSM_IDENTITY), now)

(***************************************************************************)
(* Properties of the cache hit (checked under Spec).                       *)
(***************************************************************************)
\* The lookup of task t hits a cached entry whose expiration is earlier
\* than the clock.
HitsExpired(t, x) ==
    /\ vpc[t] = "lookup"
    /\ x \in CacheGet(cache, GenerationId(vin[t]))
    /\ x.expiration # NoTime
    /\ x.expiration < now

\* The lookup of task t returns at once with `result`: the log is not
\* fetched, and the cache and the store stay as they are.
HitReturns(t, result) ==
    /\ vpc'[t] = "done"
    /\ vres'[t] = [stage |-> "hit", result |-> result]
    /\ cache' = cache
    /\ store' = store

\* The cache changes only in the steps of a call that missed it: when that
\* call clears it and when it walks the log it fetched.
OnlyMissChangesCache ==
    cache' # cache =>
        \E t \in Tasks : vpc[t] \in {"clear", "walk"} /\ vpc'[t] # vpc[t]

\* C28 as stated: a cache hit on an entry whose expiration is earlier than
\* now fails with `expired key`, without fetching the log and without
\* changing the cache, and the cache changes only when a request misses it.
C28_ExpiredHitFails ==
    [][/\ \A t \in Tasks : \A x \in cache :
             HitsExpired(t, x) /\ vpc'[t] # "lookup"
             => HitReturns(t, "expired key")
       /\ OnlyMissChangesCache]_vars

\* C28, amended: such a hit fails without fetching the log and without
\* changing the cache; the error is `expired key` when the identity of the
\* call is the prefix of the entry and its purpose is key-authorization, and
\* the error of that check otherwise, as verify_with_entry checks them
\* first.  The cache changes only when a request misses it, and an entry
\* that is expired stays expired, so the lookup keeps failing until then.
C28_ExpiredHitFailsInOrder ==
    [][/\ \A t \in Tasks : \A x \in cache :
             HitsExpired(t, x) /\ vpc'[t] # "lookup"
             => /\ HitReturns(t,
                      IF Payload(x.key).prefix # Identity(vin[t])
                      THEN "incorrect identity (expected hsm.identity == prefix)"
                      ELSE IF Payload(x.key).purpose # KeyAuthorization
                      THEN "incorrect purpose (expected key-authorization)"
                      ELSE "expired key")
                /\ x.expiration < now'
       /\ OnlyMissChangesCache]_vars

\* A call with the right identity and a good signature hit an expired entry,
\* got `expired key`, and the entry is still cached.
C28_Witness ==
    \E t \in Tasks :
        /\ vpc[t] = "done"
        /\ vres[t] = [stage |-> "hit", result |-> "expired key"]
        /\ vused[t].expiration # NoTime
        /\ vused[t].expiration < vused[t].at
        /\ \E x \in CacheGet(cache, GenerationId(vin[t])) :
              x.key = vused[t].key /\ x.expiration = vused[t].expiration
        /\ SignatureVerifies(vin[t].message, Signature(vin[t]),
                             Payload(vused[t].key).publicKey)

(***************************************************************************)
(* Properties of the prefix of an entry (checked under SpecLog).           *)
(***************************************************************************)
\* The entries stored under `values` have id = prefix exactly at sequence 0.
PrefixIsInceptionId(values) ==
    \A k \in values :
        Payload(k).id = Payload(k).prefix <=> Payload(k).sequenceNumber = 0

\* C29: in a log that passes the validation every entry has id = prefix if
\* and only if its sequenceNumber is 0 (the digests of the model are free of
\* collisions): a log with a sequence-0 entry whose id is not its prefix, or
\* with an entry at a sequence number >= 1 whose id is its prefix, is
\* rejected by the validation.
C29_PrefixIffInception ==
    /\ [](\A t \in Tasks :
            vpc[t] \in {"walk", "find"} => PrefixIsInceptionId(vvalues[t]))
    /\ [][\A t \in Tasks :
            vpc[t] = "validate" /\ vpc'[t] # "validate"
                /\ ~PrefixIsInceptionId(vvalues[t])
            => /\ vpc'[t] = "done"
               /\ vres'[t].stage = "validate"
               /\ vres'[t].result # "ok"]_vars

\* A log was refused for an entry at sequence 0 that is self-addressing and
\* signed with its own key, but carries the prefix of another entry.
C29_Witness ==
    \E t \in Tasks :
        /\ Refused(t)
        /\ vres[t].result = "prefix must equal id for sequence 0"
        /\ \E k \in store :
              /\ Payload(k).sequenceNumber = 0
              /\ Payload(k).id # Payload(k).prefix
              /\ SelfAddressing(k)
              /\ k \in hsm.signatureOk

(***************************************************************************)
(* Properties of the retries of get (checked under SpecGet).               *)
(***************************************************************************)
\* The errors of get that process_response returns, its own and those of
\* KeyVerifier::verify: every error but the one of a read.
ProcessResponseError(err) == err \notin {"none", "Redis error"}

\* C30: get always terminates, after at most MAX_RETRIES (3) reads of the
\* access store, and only the error of a read is retried: once a read has
\* returned a value the call makes no further read, whatever error
\* process_response returns.
C30_BoundedReads ==
    /\ [](\A t \in Tasks : ares[t].reads <= MAX_RETRIES)
    /\ [][\A t \in Tasks :
            /\ apc[t] = "verify" =>
                  /\ apc'[t] \in {"verify", "done"}
                  /\ ares'[t].reads = ares[t].reads
            /\ apc[t] = "read" /\ apc'[t] = "done"
                  /\ ProcessResponseError(ares'[t].err)
               => ares'[t].reads = ares[t].reads + 1 /\ ares'[t].waits = ares[t].waits
            /\ apc[t] = "read" /\ apc'[t] = "read" /\ ares'[t] # ares[t]
               => ares'[t].reads = ares[t].reads + 1 /\ ares[t].reads + 1 < MAX_RETRIES
            /\ apc[t] = "done" /\ apc'[t] = "done" => ares'[t] = ares[t]]_vars
    /\ \A t \in {1} : (apc[t] \in {"read", "verify"}) ~> (apc[t] = "done")

\* A call whose first two reads failed and whose third returned a record
\* that process_response refused: three reads, two sleeps, no more.
C30_Witness ==
    \E t \in Tasks :
        /\ apc[t] = "done"
        /\ ares[t].reads = MAX_RETRIES
        /\ ares[t].waits = <<BackoffMs(1), BackoffMs(2)>>
        /\ ProcessResponseError(ares[t].err)

(***************************************************************************)
(* Properties of the cache hit and the stored log (checked under Spec).    *)
(***************************************************************************)
\* The lookup of task t hits the cached entry x, whose prefix is the
\* identity of the call and whose key signed the message of the call.
HitWouldVerify(t, x) ==
    /\ vpc[t] = "lookup"
    /\ x \in CacheGet(cache, GenerationId(vin[t]))
    /\ Payload(x.key).prefix = Identity(vin[t])
    /\ Payload(x.key).purpose = KeyAuthorization
    /\ SignatureVerifies(vin[t].message, Signature(vin[t]), Payload(x.key).publicKey)

\* The step of task t read nothing from the HSM-log store and left the
\* cache as it was.
NothingFetched(t) ==
    /\ cache' = cache
    /\ store' = store
    /\ connLock' = connLock
    /\ vkeys'[t] = {} /\ vvalues'[t] = {} /\ vrecords'[t] = <<>>

\* Every lookup that finds its generation in the cache returns from the hit
\* path, having fetched nothing.
HitFetchesNothing ==
    \A t \in Tasks :
        vpc[t] = "lookup" /\ vpc'[t] # "lookup"
            /\ CacheGet(cache, GenerationId(vin[t])) # {}
        => vpc'[t] = "done" /\ vres'[t].stage = "hit" /\ NothingFetched(t)

\* C31 as stated: a cache hit reads nothing from the HSM-log store and
\* leaves the cache unchanged, and an entry cached earlier keeps being
\* accepted, whatever the stored log has become, until a call misses the
\* cache.
C31_HitKeepsAccepting ==
    [][/\ HitFetchesNothing
       /\ \A t \in Tasks : \A x \in cache :
             HitWouldVerify(t, x) /\ vpc'[t] # "lookup"
             => vres'[t] = [stage |-> "hit", result |-> "ok"]
       /\ OnlyMissChangesCache]_vars

\* C31, amended: a cache hit reads nothing from the HSM-log store and leaves
\* the cache unchanged, and an entry cached earlier keeps being accepted,
\* whatever the stored log has become, as long as its expiration, if it has
\* one, is not earlier than now, until a call misses the cache.
C31_HitKeepsAcceptingUntilExpired ==
    [][/\ HitFetchesNothing
       /\ \A t \in Tasks : \A x \in cache :
             HitWouldVerify(t, x) /\ vpc'[t] # "lookup"
             => vres'[t] =
                   [stage |-> "hit",
                    result |-> IF x.expiration # NoTime /\ x.expiration < now
                               THEN "expired key" ELSE "ok"]
       /\ OnlyMissChangesCache]_vars

\* A hit accepted generation 1 from the cache while the store holds a newer
\* entry that taints it, which the snapshot the cache was filled from did
\* not hold.
C31_Witness ==
    \E t \in Tasks :
        /\ vpc[t] = "done"
        /\ vres[t] = [stage |-> "hit", result |-> "ok"]
        /\ \E x \in cache, k \in store :
              /\ x.key = vused[t].key
              /\ k \notin x.from
              /\ Payload(k).prefix = Payload(x.key).prefix
              /\ Payload(k).sequenceNumber > Payload(x.key).sequenceNumber
              /\ Payload(k).taintPrevious = "true"

(***************************************************************************)
(* Properties of the locks (checked under SpecLocks).                      *)
(***************************************************************************)
\* Task t is inside a call of get or of verify.
InCall(t) == apc[t] \in {"read", "verify"} \/ vpc[t] \notin {"idle", "done"}

\* C32: concurrent verify and get calls cannot deadlock.  No task holds the
\* cache lock while it waits for or holds the HSM-connection lock (the
\* positions "keys" and "mget" of the fetch), the cache lock is held only
\* from the walk to the return and the HSM-connection lock only between
\* KEYS and MGET; the access-connection lock is the outer one: it is held by
\* a task inside process_response, and no task waits for it (position
\* "read") while it holds one of the other two.  Whenever a task is inside a
\* call some task can take a step, and every call returns.
C32_NoDeadlock ==
    /\ [](\A t \in Tasks :
            /\ cacheLock = t => vpc[t] = "find" /\ connLock # t
            /\ vpc[t] \in {"keys", "mget"} => cacheLock # t
            /\ connLock = t => vpc[t] = "mget"
            /\ accLock = t => apc[t] = "verify"
            /\ apc[t] = "read" => cacheLock # t /\ connLock # t)
    /\ []((\E t \in Tasks : InCall(t)) => \E t \in Tasks : ENABLED TaskProgress(t))
    /\ \A t \in Tasks : InCall(t) ~> ~InCall(t)

\* One task is inside process_response with the access-connection lock and
\* waits for the HSM-connection lock, which the other task holds during its
\* fetch.
C32_Witness ==
    \E t, u \in Tasks :
        /\ t # u
        /\ accLock = t /\ vpc[t] = "keys"
        /\ connLock = u /\ vpc[u] = "mget"

(***************************************************************************)
(* Properties of the identity (checked under Spec).                        *)
(***************************************************************************)
\* C33: in every reachable state every cached entry has the prefix
\* HSM_IDENTITY (the walk caches records of the group of HSM_IDENTITY only);
\* hence a verify call with an hsm_identity other than HSM_IDENTITY never
\* succeeds, whether it returns from the hit or after the repopulation.
C33_OnlyHsmIdentity ==
    /\ [](\A x \in cache : Payload(x.key).prefix = HSM_IDENTITY)
    /\ [][\A t \in Tasks :
            vpc[t] # "done" /\ vpc'[t] = "done" /\ Identity(vin[t]) # HSM_IDENTITY
            => vres'[t].result # "ok"]_vars

\* A call with the identity of another chain, whose inception is in the
\* snapshot the cache was filled from, took the miss path and was refused
\* for its identity by verify_with_entry.
C33_Witness ==
    \E t \in Tasks :
        /\ vpc[t] = "done"
        /\ vin[t] = In("H1", "F0", 2)
        /\ vres[t] = [stage |-> "find",
                      result |-> "incorrect identity (expected hsm.identity == prefix)"]
        /\ \E x \in cache : "F0" \in x.from /\ x.key = vused[t].key

(***************************************************************************)
(* Properties of the repopulation at one time of the clock (checked under  *)
(* SpecStill).                                                             *)
(***************************************************************************)
\* C34: if time does not advance during the call, a verify that takes the
\* miss path never fails with `expired key`: every expiration the walk
\* writes is at or after the clock at the moment it is written, and no call
\* that returns from the lookup after the repopulation returns `expired key`.
C34_MissNeverExpired ==
    /\ [][\A t \in Tasks :
            vpc[t] = "walk" /\ vpc'[t] # "walk" =>
                \A x \in cache' \ cache :
                    x.expiration # NoTime => x.expiration >= now]_vars
    /\ [](\A t \in Tasks :
            vpc[t] = "done" /\ vres[t].stage = "find"
            => vres[t].result # "expired key")

\* A call on the miss path was accepted with an entry whose expiration is
\* the clock itself, from a walk that stopped before the oldest entry.
C34_Witness ==
    \E t \in Tasks :
        /\ vpc[t] = "done"
        /\ vres[t] = [stage |-> "find", result |-> "ok"]
        /\ vused[t].expiration = now
        /\ vused[t].at = now
        /\ \E k \in store : CacheGet(cache, Payload(k).id) = {}
                               /\ Payload(k).prefix = HSM_IDENTITY

(***************************************************************************)
(* Properties of the refused reservation (checked under SpecNonce).        *)
(***************************************************************************)
\* C35: a reserve(x) that fails with `value reserved too recently` leaves
\* the nonce map unchanged: validAfter[x] is not extended and no other nonce
\* is touched, so a reserve(x) at the time the map held before the refused
\* attempt is not refused on account of it.
C35_RefusedLeavesMap ==
    /\ [][\A t \in Tasks :
            rpc[t] = "check" /\ rpc'[t] = "idle" =>
                /\ ReservedTooRecently(nonces[rvalue[t]], now)
                /\ Len(rlog') = Len(rlog) + 1
                /\ ~rlog'[Len(rlog')].ok
                /\ nonces' = nonces]_vars
    /\ [](\A i \in DOMAIN rlog : \A j \in DOMAIN rlog :
            /\ i < j
            /\ ~rlog[i].ok
            /\ rlog[j].value = rlog[i].value
            /\ rlog[j].at >= rlog[i].prev
            /\ ~ \E k \in (i + 1)..(j - 1) : rlog[k].ok /\ rlog[k].value = rlog[i].value
            => rlog[j].ok)

\* A reserve(x) was refused and the next reserve(x), at the very time the
\* map held for x when the first was refused, succeeded.
C35_Witness ==
    \E i \in DOMAIN rlog : \E j \in DOMAIN rlog :
        /\ i < j
        /\ ~rlog[i].ok
        /\ rlog[j].ok
        /\ rlog[j].value = rlog[i].value
        /\ rlog[j].at = rlog[i].prev
        /\ rlog[i].at < rlog[i].prev

(***************************************************************************)
(* Properties of the walk of the basic KeyVerifier (checked under          *)
(* SpecParse).                                                             *)
(***************************************************************************)
\* C36: in the basic KeyVerifier a verify call that returns an error during
\* the cache walk (an entry of the HSM chain whose createdAt does not parse)
\* has written no entry to the cache: the cache after the failed walk is the
\* cache before it, and it holds no entry whose createdAt does not parse.
C36_FailedWalkWritesNothing ==
    /\ [][\A t \in Tasks :
            vpc[t] = "walk" /\ vpc'[t] = "done" /\ vres'[t].stage = "walk"
            => cache' = cache]_vars
    /\ [](\A x \in cache : Payload(x.key).createdAt # BadTimestamp)

====
